---- MODULE Spec2Model ----
(***************************************************************************)
(* A model of the glengine wrappers (Window, Shader, Texture) and of the   *)
(* two stand-alone main() programs, over an abstract OpenGL / GLFW /       *)
(* stb_image state.  Every wrapper method is an operator that threads a    *)
(* context record c = [gl, glfw, calls, cerr, cout, exc, ret] through the  *)
(* library calls the method makes, in source order:                        *)
(*   gl    the state of the OpenGL context                                 *)
(*   glfw  the state of the windowing library                              *)
(*   calls the library calls made so far, in order                         *)
(*   cerr  the lines written to std::cerr, cout those written to std::cout *)
(*   exc   the exception in flight ("none" when there is none)             *)
(*   ret   the value returned by the last library call                     *)
(***************************************************************************)
EXTENDS Integers, Sequences, FiniteSets, TLC

VARIABLES gl, glfw, stbFlip, shaderObjs, texObjs, winObjs, meshObjs,
          calls, cerr, cout, thrown, op, pc, loc

vars == <<gl, glfw, stbFlip, shaderObjs, texObjs, winObjs, meshObjs,
          calls, cerr, cout, thrown, op, meshObjs, pc, loc>>

(* ------------------------------ bounds -------------------------------- *)
MaxShaders == 2
MaxTextures == 2
MaxWindows == 2
MaxUnit == 1
MaxFrames == 2
MaxAttrib == 3
MaxMeshes == 2
MaxVertices == 2
MaxIndices == 2

(* ------------------------- small input domains ------------------------ *)
UniformNames == {"myTexture1", "mixValue"}
UniformType(name) ==
  IF name = "mixValue" THEN "float" ELSE IF name = "myColor" THEN "vec4" ELSE "int"
ZeroOf(name) == IF UniformType(name) = "vec4" THEN <<0, 0, 0, 0>> ELSE 0
Values == {0, 1}
Channels == 1 .. 4
\* the image files at hand, one for each channel count a file can have
ImagePaths == {"images/gray.png", "images/grayalpha.png",
               "images/stoneimage.png", "images/rgba.png"}
ChannelsOf(filepath) ==
  CASE filepath = "images/gray.png" -> 1
    [] filepath = "images/grayalpha.png" -> 2
    [] filepath = "images/stoneimage.png" -> 3
    [] OTHER -> 4
Units == 0 .. MaxUnit

BoolToInt(b) == IF b THEN 1 ELSE 0
EmptyFn == [x \in {} |-> 0]
Range(f) == {f[x] : x \in DOMAIN f}
Without(f, k) == [x \in DOMAIN f \ {k} |-> f[x]]
With(f, k, v) == [x \in DOMAIN f \cup {k} |-> IF x = k THEN v ELSE f[x]]

\* the uniform layouts a successful link can produce: an injective map from
\* the program's active uniform names to locations
LayoutsOver(names) ==
  UNION {{l \in [U -> 0 .. (Cardinality(names) - 1)] : \A a, b \in U : l[a] = l[b] => a = b}
         : U \in SUBSET names}
Layouts == LayoutsOver(UniformNames)

(* ------------------------- context plumbing --------------------------- *)
Call(c, entry) == [c EXCEPT !.calls = Append(@, entry)]
Cerr(c, line) == [c EXCEPT !.cerr = Append(@, line)]
Cout(c, line) == [c EXCEPT !.cout = Append(@, line)]
Throw(c, what) == [c EXCEPT !.exc = what]
IsRuntimeError(x) ==
  x \in {"std::runtime_error: Failed to initialize GLFW",
         "std::runtime_error: Failed to create GLFW window",
         "std::runtime_error: Failed to initialize GLAD",
         "std::runtime_error: shader compilation failed",
         "std::runtime_error: Failed to load texture"}
SetError(c, e) ==
  [c EXCEPT !.gl.error = IF @ = "GL_NO_ERROR" THEN e ELSE @]

\* a wrapper method called on its own: the call and output logs start empty
Ctx == [gl |-> gl, glfw |-> glfw, stbFlip |-> stbFlip,
        calls |-> <<>>, cerr |-> <<>>, cout |-> <<>>, exc |-> "none", ret |-> 0]
\* a statement of main(): the logs of the program run continue
CtxMain == [gl |-> gl, glfw |-> glfw, stbFlip |-> stbFlip,
            calls |-> calls, cerr |-> cerr, cout |-> cout, exc |-> "none", ret |-> 0]
Commit(c) ==
  /\ gl' = c.gl
  /\ glfw' = c.glfw
  /\ stbFlip' = c.stbFlip
  /\ calls' = c.calls
  /\ cerr' = c.cerr
  /\ cout' = c.cout
  /\ thrown' = c.exc

(* ------------------------ OpenGL: shader objects ---------------------- *)
glCreateShader(c, type) ==
  LET h == c.gl.nextName IN
  [Call(c, <<"glCreateShader", type>>) EXCEPT
     !.gl.shaders = With(@, h, [type |-> type, source |-> "",
                                compiled |-> FALSE, flagged |-> FALSE]),
     !.gl.nextName = h + 1,
     !.ret = h]

glShaderSource(c, h, text) ==
  LET c1 == Call(c, <<"glShaderSource", h>>) IN
  IF h \in DOMAIN c.gl.shaders
    THEN [c1 EXCEPT !.gl.shaders[h].source = text]
    ELSE SetError(c1, "GL_INVALID_VALUE")

\* compiles: whether the driver accepts the source held by the stage object
glCompileShader(c, h, compiles) ==
  LET c1 == Call(c, <<"glCompileShader", h>>) IN
  IF h \in DOMAIN c.gl.shaders
    THEN [c1 EXCEPT !.gl.shaders[h].compiled = compiles]
    ELSE SetError(c1, "GL_INVALID_VALUE")

glGetShaderiv(c, h) ==
  LET c1 == Call(c, <<"glGetShaderiv", h>>) IN
  IF h \in DOMAIN c.gl.shaders
    THEN [c1 EXCEPT !.ret = IF c.gl.shaders[h].compiled THEN 1 ELSE 0]
    ELSE SetError([c1 EXCEPT !.ret = 0], "GL_INVALID_VALUE")

glGetShaderInfoLog(c, h) ==
  LET c1 == Call(c, <<"glGetShaderInfoLog", h>>) IN
  IF h \in DOMAIN c.gl.shaders THEN c1
  ELSE IF h \in DOMAIN c.gl.programs THEN SetError(c1, "GL_INVALID_OPERATION")
  ELSE SetError(c1, "GL_INVALID_VALUE")

AttachedSomewhere(g, h) == \E p \in DOMAIN g.programs : h \in g.programs[p].attached

\* an attached stage object is only flagged; it goes away when it is detached
glDeleteShader(c, h) ==
  LET c1 == Call(c, <<"glDeleteShader", h>>) IN
  IF h = 0 THEN c1
  ELSE IF h \notin DOMAIN c.gl.shaders THEN SetError(c1, "GL_INVALID_VALUE")
  ELSE IF AttachedSomewhere(c.gl, h)
    THEN [c1 EXCEPT !.gl.shaders[h].flagged = TRUE]
    ELSE [c1 EXCEPT !.gl.shaders = Without(@, h)]

(* ------------------------ OpenGL: program objects --------------------- *)
glCreateProgram(c) ==
  LET h == c.gl.nextName IN
  [Call(c, <<"glCreateProgram">>) EXCEPT
     !.gl.programs = With(@, h, [attached |-> {}, linked |-> FALSE,
                                 uloc |-> EmptyFn, uval |-> EmptyFn]),
     !.gl.nextName = h + 1,
     !.ret = h]

glAttachShader(c, p, h) ==
  LET c1 == Call(c, <<"glAttachShader", p, h>>) IN
  IF p \in DOMAIN c.gl.programs /\ h \in DOMAIN c.gl.shaders
    THEN [c1 EXCEPT !.gl.programs[p].attached = @ \cup {h}]
    ELSE SetError(c1, "GL_INVALID_VALUE")

\* every attached stage compiled from a non-empty source (an empty source
\* defines no main), and both stages are present
Linkable(g, p) ==
  /\ \A h \in g.programs[p].attached :
       g.shaders[h].compiled /\ g.shaders[h].source # ""
  /\ \E h \in g.programs[p].attached : g.shaders[h].type = "GL_VERTEX_SHADER"
  /\ \E h \in g.programs[p].attached : g.shaders[h].type = "GL_FRAGMENT_SHADER"

\* links: whether the driver links the compiled stages; layout: the uniform
\* locations it assigns when it does.  Uniforms start at zero.
glLinkProgram(c, p, links, layout) ==
  LET c1 == Call(c, <<"glLinkProgram", p>>)
      ok == links /\ Linkable(c.gl, p) IN
  IF p \notin DOMAIN c.gl.programs THEN SetError(c1, "GL_INVALID_VALUE")
  ELSE [c1 EXCEPT !.gl.programs[p].linked = ok,
                  !.gl.programs[p].uloc = IF ok THEN layout ELSE EmptyFn,
                  !.gl.programs[p].uval =
                      IF ok THEN [l \in Range(layout) |->
                                    ZeroOf(CHOOSE n \in DOMAIN layout : layout[n] = l)]
                            ELSE EmptyFn]

glGetProgramiv(c, p) ==
  LET c1 == Call(c, <<"glGetProgramiv", p>>) IN
  IF p \in DOMAIN c.gl.programs
    THEN [c1 EXCEPT !.ret = IF c.gl.programs[p].linked THEN 1 ELSE 0]
    ELSE SetError([c1 EXCEPT !.ret = 0], "GL_INVALID_VALUE")

glGetProgramInfoLog(c, p) ==
  LET c1 == Call(c, <<"glGetProgramInfoLog", p>>) IN
  IF p \in DOMAIN c.gl.programs THEN c1 ELSE SetError(c1, "GL_INVALID_VALUE")

glUseProgram(c, p) ==
  LET c1 == Call(c, <<"glUseProgram", p>>) IN
  IF p = 0 THEN [c1 EXCEPT !.gl.current = 0]
  ELSE IF p \notin DOMAIN c.gl.programs THEN SetError(c1, "GL_INVALID_VALUE")
  ELSE IF ~c.gl.programs[p].linked THEN SetError(c1, "GL_INVALID_OPERATION")
  ELSE [c1 EXCEPT !.gl.current = p]

\* glGetUniformLocation answering location 0 for a name it does not find
glGetUniformLocation_ZeroWhenAbsent(c, p, name) ==
  LET c1 == Call(c, <<"glGetUniformLocation", p, name>>) IN
  IF p \notin DOMAIN c.gl.programs
    THEN SetError([c1 EXCEPT !.ret = 0], "GL_INVALID_VALUE")
  ELSE IF ~c.gl.programs[p].linked
    THEN SetError([c1 EXCEPT !.ret = 0], "GL_INVALID_OPERATION")
  ELSE [c1 EXCEPT !.ret = IF name \in DOMAIN c.gl.programs[p].uloc
                            THEN c.gl.programs[p].uloc[name] ELSE 0]

\* -1 when the name is no active uniform of program p (or p never linked)
glGetUniformLocation(c, p, name) ==
  LET c1 == Call(c, <<"glGetUniformLocation", p, name>>) IN
  IF p \notin DOMAIN c.gl.programs
    THEN SetError([c1 EXCEPT !.ret = -1], "GL_INVALID_VALUE")
  ELSE IF ~c.gl.programs[p].linked
    THEN SetError([c1 EXCEPT !.ret = -1], "GL_INVALID_OPERATION")
  ELSE [c1 EXCEPT !.ret = IF name \in DOMAIN c.gl.programs[p].uloc
                            THEN c.gl.programs[p].uloc[name] ELSE -1]

\* the type of the uniform that program p keeps at a location
TypeAt(g, p, location) ==
  UniformType(CHOOSE n \in DOMAIN g.programs[p].uloc : g.programs[p].uloc[n] = location)

\* glUniform1i / glUniform1f / glUniform4f write to the program in use, whatever program
\* the location was looked up in; location -1 is silently ignored
Uniform1(c, fname, accepted, location, v) ==
  LET c1 == Call(c, <<fname, location, v>>)
      p == c.gl.current IN
  IF location = -1 THEN c1
  ELSE IF p = 0 THEN SetError(c1, "GL_INVALID_OPERATION")
  ELSE IF location \notin DOMAIN c.gl.programs[p].uval
    THEN SetError(c1, "GL_INVALID_OPERATION")
  ELSE IF TypeAt(c.gl, p, location) # accepted
    THEN SetError(c1, "GL_INVALID_OPERATION")
  ELSE [c1 EXCEPT !.gl.programs[p].uval[location] = v]

glUniform1i(c, location, v) == Uniform1(c, "glUniform1i", "int", location, v)

glUniform1f(c, location, v) == Uniform1(c, "glUniform1f", "float", location, v)

glUniform4f(c, location, v) == Uniform1(c, "glUniform4f", "vec4", location, v)

(* ------------------------ OpenGL: texture objects --------------------- *)
\* the null pixel pointer, and a texture level that was never specified
NullData == [file |-> "", channels |-> 0, flipped |-> FALSE]
NoImage == [internalFormat |-> "none", format |-> "none", pixels |-> NullData]

\* a texture object as glGenTextures leaves it
DefaultTexture ==
  [wrapS |-> "GL_REPEAT", wrapT |-> "GL_REPEAT",
   minFilter |-> "GL_NEAREST_MIPMAP_LINEAR", magFilter |-> "GL_LINEAR",
   image |-> NoImage, mipmaps |-> FALSE]

\* the texture bound to the 2D target of the active unit
BoundTexture(g) == g.unitTex[g.activeUnit]

glGenTextures(c) ==
  LET h == c.gl.nextTex IN
  [Call(c, <<"glGenTextures">>) EXCEPT
     !.gl.textures = With(@, h, DefaultTexture),
     !.gl.nextTex = h + 1,
     !.ret = h]

glBindTexture(c, h) ==
  LET c1 == Call(c, <<"glBindTexture", h>>) IN
  IF h \in DOMAIN c.gl.textures
    THEN [c1 EXCEPT !.gl.unitTex[c.gl.activeUnit] = h]
    ELSE SetError(c1, "GL_INVALID_OPERATION")

\* the unit selection ignored
glActiveTexture_Ignored(c, unit) == Call(c, <<"glActiveTexture", unit>>)

glActiveTexture(c, unit) ==
  LET c1 == Call(c, <<"glActiveTexture", unit>>) IN
  IF unit \in Units
    THEN [c1 EXCEPT !.gl.activeUnit = unit]
    ELSE SetError(c1, "GL_INVALID_ENUM")

glTexParameteri(c, pname, value) ==
  LET c1 == Call(c, <<"glTexParameteri", pname, value>>)
      t == BoundTexture(c.gl) IN
  CASE pname = "GL_TEXTURE_WRAP_S" -> [c1 EXCEPT !.gl.textures[t].wrapS = value]
    [] pname = "GL_TEXTURE_WRAP_T" -> [c1 EXCEPT !.gl.textures[t].wrapT = value]
    [] pname = "GL_TEXTURE_MIN_FILTER" -> [c1 EXCEPT !.gl.textures[t].minFilter = value]
    [] pname = "GL_TEXTURE_MAG_FILTER" -> [c1 EXCEPT !.gl.textures[t].magFilter = value]
    [] OTHER -> SetError(c1, "GL_INVALID_ENUM")

\* level 0 of the texture bound to the active unit is replaced; the other
\* levels no longer derive from it
glTexImage2D(c, internalFormat, format, pixels) ==
  LET c1 == Call(c, <<"glTexImage2D", internalFormat, format>>)
      t == BoundTexture(c.gl) IN
  [c1 EXCEPT !.gl.textures[t].image =
                 [internalFormat |-> internalFormat, format |-> format,
                  pixels |-> pixels],
             !.gl.textures[t].mipmaps = FALSE]

glGenerateMipmap(c) ==
  LET c1 == Call(c, <<"glGenerateMipmap">>)
      t == BoundTexture(c.gl) IN
  IF c.gl.textures[t].image = NoImage
    THEN SetError(c1, "GL_INVALID_OPERATION")
    ELSE [c1 EXCEPT !.gl.textures[t].mipmaps = TRUE]

\* the name is released and every unit it was bound to falls back to 0
glDeleteTextures(c, h) ==
  LET c1 == Call(c, <<"glDeleteTextures", h>>) IN
  IF h = 0 \/ h \notin DOMAIN c.gl.textures THEN c1
  ELSE [c1 EXCEPT !.gl.textures = Without(@, h),
                  !.gl.unitTex = [u \in DOMAIN @ |-> IF @[u] = h THEN 0 ELSE @[u]]]

(* ------------------ OpenGL: vertex arrays and buffers ----------------- *)
AttribSlots == 0 .. MaxAttrib
NoAttrib == [enabled |-> FALSE, size |-> 0, stride |-> 0, offset |-> 0, buffer |-> 0]
NewVertexArray == [elementBuffer |-> 0, attribs |-> [i \in AttribSlots |-> NoAttrib]]

glGenVertexArrays(c) ==
  LET h == c.gl.nextVAO IN
  [Call(c, <<"glGenVertexArrays">>) EXCEPT
     !.gl.vaos = With(@, h, NewVertexArray), !.gl.nextVAO = h + 1, !.ret = h]

glGenBuffers(c) ==
  LET h == c.gl.nextBuf IN
  [Call(c, <<"glGenBuffers">>) EXCEPT
     !.gl.buffers = With(@, h, [length |-> 0, data |-> <<>>]),
     !.gl.nextBuf = h + 1, !.ret = h]

glBindVertexArray(c, v) ==
  LET c1 == Call(c, <<"glBindVertexArray", v>>) IN
  IF v = 0 \/ v \in DOMAIN c.gl.vaos
    THEN [c1 EXCEPT !.gl.boundVAO = v]
    ELSE SetError(c1, "GL_INVALID_OPERATION")

\* the element-array binding is part of the vertex array that is bound
glBindBuffer(c, target, b) ==
  LET c1 == Call(c, <<"glBindBuffer", target, b>>) IN
  IF b # 0 /\ b \notin DOMAIN c.gl.buffers THEN SetError(c1, "GL_INVALID_OPERATION")
  ELSE IF target = "GL_ARRAY_BUFFER" THEN [c1 EXCEPT !.gl.arrayBuffer = b]
  ELSE IF c.gl.boundVAO = 0 THEN SetError(c1, "GL_INVALID_OPERATION")
  ELSE [c1 EXCEPT !.gl.vaos[c.gl.boundVAO].elementBuffer = b]

TargetBuffer(g, target) ==
  IF target = "GL_ARRAY_BUFFER" THEN g.arrayBuffer
  ELSE IF g.boundVAO = 0 THEN 0
  ELSE g.vaos[g.boundVAO].elementBuffer

\* length: the number of elements (floats or indices) uploaded; data: the
\* values, kept for index data (<<>> for floats, whose values play no part)
glBufferData(c, target, length, data) ==
  LET c1 == Call(c, <<"glBufferData", target, length>>)
      b == TargetBuffer(c.gl, target) IN
  IF b = 0 THEN SetError(c1, "GL_INVALID_OPERATION")
  ELSE [c1 EXCEPT !.gl.buffers[b] = [length |-> length, data |-> data]]

\* size, stride and offset in floats; a core profile has no default vertex
\* array, and the attribute reads the buffer bound as array buffer
glVertexAttribPointer(c, index, size, stride, offset) ==
  LET c1 == Call(c, <<"glVertexAttribPointer", index, size, stride, offset>>) IN
  IF c.gl.boundVAO = 0 THEN SetError(c1, "GL_INVALID_OPERATION")
  ELSE IF c.gl.arrayBuffer = 0 /\ offset # 0 THEN SetError(c1, "GL_INVALID_OPERATION")
  ELSE [c1 EXCEPT !.gl.vaos[c.gl.boundVAO].attribs[index] =
                      [enabled |-> @.enabled, size |-> size, stride |-> stride,
                       offset |-> offset, buffer |-> c.gl.arrayBuffer]]

glEnableVertexAttribArray(c, index) ==
  LET c1 == Call(c, <<"glEnableVertexAttribArray", index>>) IN
  IF c.gl.boundVAO = 0 THEN SetError(c1, "GL_INVALID_OPERATION")
  ELSE [c1 EXCEPT !.gl.vaos[c.gl.boundVAO].attribs[index].enabled = TRUE]

glClearColor(c) == Call(c, <<"glClearColor">>)

glClear(c) == Call(c, <<"glClear">>)

NoFetch == [indices |-> {}, floats |-> {}]

\* the floats attribute a fetches for vertex i: <<buffer, position>> pairs
AttribFetch(a, i) ==
  {<<a.buffer, a.stride * i + a.offset + k>> : k \in 0 .. a.size - 1}

\* what a draw of count indices, starting at the first, reads: the entries
\* 1 .. count of the element buffer of the bound vertex array and, for every
\* index value found there, the floats of each enabled attribute.  An entry
\* past the uploaded ones holds whatever the memory holds: garbage stands
\* for the value read there.
DrawFetch(g, count, garbage) ==
  LET v == g.vaos[g.boundVAO]
      e == g.buffers[v.elementBuffer]
      value(k) == IF k <= Len(e.data) THEN e.data[k] ELSE garbage IN
  [indices |-> 1 .. count,
   floats |-> UNION {AttribFetch(v.attribs[s], value(k)) :
                       s \in {x \in AttribSlots : v.attribs[x].enabled},
                       k \in 1 .. count}]

glDrawElements(c, count, garbage) ==
  LET c1 == Call(c, <<"glDrawElements", count>>) IN
  IF c.gl.boundVAO = 0 \/ c.gl.boundVAO \notin DOMAIN c.gl.vaos
    THEN SetError([c1 EXCEPT !.gl.fetched = NoFetch], "GL_INVALID_OPERATION")
  ELSE IF c.gl.vaos[c.gl.boundVAO].elementBuffer \notin DOMAIN c.gl.buffers
    THEN SetError([c1 EXCEPT !.gl.fetched = NoFetch], "GL_INVALID_OPERATION")
  ELSE [c1 EXCEPT !.gl.fetched = DrawFetch(c.gl, count, garbage)]

glDeleteVertexArrays(c, v) ==
  LET c1 == Call(c, <<"glDeleteVertexArrays", v>>) IN
  IF v = 0 \/ v \notin DOMAIN c.gl.vaos THEN c1
  ELSE [c1 EXCEPT !.gl.vaos = Without(@, v),
                  !.gl.boundVAO = IF @ = v THEN 0 ELSE @]

\* the name is released and the bindings of the current state that hold it
\* fall back to 0
glDeleteBuffers(c, b) ==
  LET c1 == Call(c, <<"glDeleteBuffers", b>>)
      v == c.gl.boundVAO IN
  IF b = 0 \/ b \notin DOMAIN c.gl.buffers THEN c1
  ELSE [c1 EXCEPT
          !.gl.buffers = Without(@, b),
          !.gl.arrayBuffer = IF @ = b THEN 0 ELSE @,
          !.gl.vaos = [x \in DOMAIN @ |->
                         IF x = v /\ @[x].elementBuffer = b
                           THEN [@[x] EXCEPT !.elementBuffer = 0] ELSE @[x]]]

(* ----------------------------- stb_image ------------------------------ *)
stbi_set_flip_vertically_on_load(c, flag) ==
  [Call(c, <<"stbi_set_flip_vertically_on_load">>) EXCEPT !.stbFlip = flag]

\* decoded: whether the file is there and decodes; the result is the pixel
\* buffer, or the null pointer
stbi_load(c, filepath, decoded, channels) ==
  [Call(c, <<"stbi_load", filepath>>) EXCEPT
     !.ret = IF decoded
               THEN [file |-> filepath, channels |-> channels, flipped |-> c.stbFlip]
               ELSE NullData]

stbi_image_free(c) == Call(c, <<"stbi_image_free">>)

(* ------------------------------ Texture ------------------------------- *)
\* load_image made fail-fast: a failed decode throws
Texture_load_image_FailFast(c, self, filepath, decoded, channels) ==
  LET c1 == stbi_load(c, filepath, decoded, channels)
      data == c1.ret
      c2 == IF data = NullData
              THEN Throw(Cerr(c1, "Failed to load texture"),
                         "std::runtime_error: Failed to load texture")
              ELSE glGenerateMipmap(glTexImage2D(c1, "GL_RGB", "GL_RGB", data))
  IN stbi_image_free(c2)

\* load_image choosing the upload format from the decoded channel count
Texture_load_image_ByChannels(c, self, filepath, decoded, channels) ==
  LET c1 == stbi_load(c, filepath, decoded, channels)
      data == c1.ret
      format == IF channels = 4 THEN "GL_RGBA" ELSE "GL_RGB"
      c2 == IF data = NullData
              THEN Cerr(c1, "Failed to load texture")
              ELSE glGenerateMipmap(glTexImage2D(c1, format, format, data))
  IN stbi_image_free(c2)

\* the upload goes to whatever texture is bound to the active unit
Texture_load_image(c, self, filepath, decoded, channels) ==
  LET c1 == stbi_load(c, filepath, decoded, channels)
      data == c1.ret
      c2 == IF data = NullData
              THEN Cerr(c1, "Failed to load texture")
              ELSE glGenerateMipmap(glTexImage2D(c1, "GL_RGB", "GL_RGB", data))
  IN stbi_image_free(c2)

Texture_Texture(c, filepath, textureUnit, decoded, channels) ==
  LET c1 == glGenTextures(c)
      ID == c1.ret
      self == [ID |-> ID, unit |-> textureUnit, alive |-> TRUE]
      c2 == glBindTexture(c1, ID)
      c3 == glTexParameteri(c2, "GL_TEXTURE_WRAP_S", "GL_REPEAT")
      c4 == glTexParameteri(c3, "GL_TEXTURE_WRAP_T", "GL_REPEAT")
      c5 == glTexParameteri(c4, "GL_TEXTURE_MIN_FILTER", "GL_LINEAR")
      c6 == glTexParameteri(c5, "GL_TEXTURE_MAG_FILTER", "GL_LINEAR")
      c7 == stbi_set_flip_vertically_on_load(c6, TRUE)
      c8 == Texture_load_image(c7, self, filepath, decoded, channels)
  IN IF c8.exc # "none" THEN [c8 EXCEPT !.ret = 0]
     ELSE [Cout(c8, "loaded texture: " \o filepath) EXCEPT !.ret = self]

Texture_dtor(c, self) == glDeleteTextures(c, self.ID)

\* bind() without the unit selection
Texture_bind_NoUnit(c, self) == glBindTexture(c, self.ID)

Texture_bind(c, self) == glBindTexture(glActiveTexture(c, self.unit), self.ID)

\* unbind() selecting the Texture's own unit first
Texture_unbind_OwnUnit(c, self) == glBindTexture(glActiveTexture(c, self.unit), 0)

Texture_unbind(c, self) == glBindTexture(c, 0)

(* ------------------------------ Shader -------------------------------- *)
\* the lines of a shader source file; the file ends without a newline
FileLines(path) == <<"#version 460 core", "// " \o path>>
FileText(path) == FileLines(path)[1] \o "\n" \o FileLines(path)[2]

\* a try block per file: each string is filled when its own file opens
ReadShaderFiles_PerFile(vertexPath, fragmentPath, vOpen, fOpen) ==
  [failed |-> ~(vOpen /\ fOpen),
   vertexCode |-> IF vOpen THEN FileText(vertexPath) ELSE "",
   fragmentCode |-> IF fOpen THEN FileText(fragmentPath) ELSE ""]

\* the try block of the constructor: both opens precede both assignments,
\* so a failed open of either file leaves both strings empty
ReadShaderFiles(vertexPath, fragmentPath, vOpen, fOpen) ==
  IF vOpen /\ fOpen
    THEN [failed |-> FALSE, vertexCode |-> FileText(vertexPath),
          fragmentCode |-> FileText(fragmentPath)]
    ELSE [failed |-> TRUE, vertexCode |-> "", fragmentCode |-> ""]

\* CompileStage with the status test inverted: the diagnostic is logged for
\* a stage that compiled and not for one that failed
CompileStage_InvertedTest(c, type, text, compiles, label) ==
  LET c1 == glCreateShader(c, type)
      h  == c1.ret
      c2 == glShaderSource(c1, h, text)
      c3 == glCompileShader(c2, h, compiles)
      c4 == glGetShaderiv(c3, h)
      c5 == IF c4.ret # 0
              THEN Cerr(glGetShaderInfoLog(c4, h),
                        "ERROR::SHADER::" \o label \o "::COMPILATION_FAILED")
              ELSE c4
  IN [c5 EXCEPT !.ret = h]

CompileStage(c, type, text, compiles, label) ==
  LET c1 == glCreateShader(c, type)
      h  == c1.ret
      c2 == glShaderSource(c1, h, text)
      c3 == glCompileShader(c2, h, compiles)
      c4 == glGetShaderiv(c3, h)
      c5 == IF c4.ret = 0
              THEN Cerr(glGetShaderInfoLog(c4, h),
                        "ERROR::SHADER::" \o label \o "::COMPILATION_FAILED")
              ELSE c4
  IN [c5 EXCEPT !.ret = h]

LinkStages(c, vertexShader, fragmentShader, links, layout) ==
  LET c1 == glCreateProgram(c)
      ID == c1.ret
      c2 == glAttachShader(c1, ID, vertexShader)
      c3 == glAttachShader(c2, ID, fragmentShader)
      c4 == glLinkProgram(c3, ID, links, layout)
      c5 == glGetProgramiv(c4, ID)
      c6 == IF c5.ret = 0
              THEN Cerr(glGetProgramInfoLog(c5, ID),
                        "ERROR::SHADER::PROGRAM::LINKING_FAILED")
              ELSE c5
  IN [c6 EXCEPT !.ret = ID]

\* Shader_Shader made fail-fast: a failed vertex compile throws and the
\* rest of the constructor is skipped
Shader_Shader_FailFast(c, vertexPath, fragmentPath, vOpen, fOpen, vCompiles, fCompiles, links, layout) ==
  LET src == ReadShaderFiles(vertexPath, fragmentPath, vOpen, fOpen)
      c0 == IF src.failed
              THEN Cerr(c, "ERROR::SHADER::FILE_NOT_SUCCESFULLY_READ") ELSE c
      c1 == CompileStage(c0, "GL_VERTEX_SHADER", src.vertexCode, vCompiles, "VERTEX")
      vertexShader == c1.ret
      c2 == CompileStage(c1, "GL_FRAGMENT_SHADER", src.fragmentCode, fCompiles, "FRAGMENT")
      fragmentShader == c2.ret
      c3 == LinkStages(c2, vertexShader, fragmentShader, links, layout)
      ID == c3.ret
      c4 == glDeleteShader(c3, vertexShader)
      c5 == glDeleteShader(c4, fragmentShader)
  IN IF ~c1.gl.shaders[vertexShader].compiled
       THEN Throw([c1 EXCEPT !.ret = 0], "std::runtime_error: shader compilation failed")
       ELSE [c5 EXCEPT !.ret = ID]

Shader_Shader(c, vertexPath, fragmentPath, vOpen, fOpen, vCompiles, fCompiles, links, layout) ==
  LET src == ReadShaderFiles(vertexPath, fragmentPath, vOpen, fOpen)
      c0 == IF src.failed
              THEN Cerr(c, "ERROR::SHADER::FILE_NOT_SUCCESFULLY_READ") ELSE c
      c1 == CompileStage(c0, "GL_VERTEX_SHADER", src.vertexCode, vCompiles, "VERTEX")
      vertexShader == c1.ret
      c2 == CompileStage(c1, "GL_FRAGMENT_SHADER", src.fragmentCode, fCompiles, "FRAGMENT")
      fragmentShader == c2.ret
      c3 == LinkStages(c2, vertexShader, fragmentShader, links, layout)
      ID == c3.ret
      c4 == glDeleteShader(c3, vertexShader)
      c5 == glDeleteShader(c4, fragmentShader)
  IN [c5 EXCEPT !.ret = ID]

\* a destructor that releases the program
Shader_dtor_DeletesProgram(c, self) ==
  [Call(c, <<"glDeleteProgram", self.ID>>) EXCEPT
     !.gl.programs = Without(@, self.ID),
     !.gl.current = IF @ = self.ID THEN 0 ELSE @]

\* Shader declares no destructor: the end of the object's lifetime makes no
\* call
Shader_dtor(c, self) == c

Shader_initialize(c, self) == glUseProgram(c, self.ID)

Shader_setBool(c, self, name, value) ==
  LET c1 == glGetUniformLocation(c, self.ID, name)
  IN glUniform1i(c1, c1.ret, BoolToInt(value))

Shader_setInt(c, self, name, value) ==
  LET c1 == glGetUniformLocation(c, self.ID, name)
  IN glUniform1i(c1, c1.ret, value)

Shader_setFloat(c, self, name, value) ==
  LET c1 == glGetUniformLocation(c, self.ID, name)
  IN glUniform1f(c1, c1.ret, value)

(* -------------------------------- GLFW -------------------------------- *)
\* succeeds: whether the platform lets the library initialise; a library
\* that is already initialised answers GLFW_TRUE at once
glfwInit(c, succeeds) ==
  LET ok == c.glfw.initialized \/ succeeds IN
  [Call(c, <<"glfwInit">>) EXCEPT !.glfw.initialized = ok,
                                   !.ret = BoolToInt(ok)]

glfwWindowHint(c, hint) ==
  LET c1 == Call(c, <<"glfwWindowHint", hint>>) IN
  IF c.glfw.initialized THEN [c1 EXCEPT !.glfw.hints = TRUE] ELSE c1

\* the handle of the new window, 0 for the null pointer
glfwCreateWindow(c, width, height, succeeds) ==
  LET c1 == Call(c, <<"glfwCreateWindow", width, height>>)
      w == c.glfw.nextWindow IN
  IF c.glfw.initialized /\ succeeds
    THEN [c1 EXCEPT !.glfw.windows =
                       With(@, w, [shouldClose |-> FALSE, resizeCallback |-> FALSE,
                                   viewport |-> <<0, 0, width, height>>]),
                    !.glfw.nextWindow = w + 1,
                    !.ret = w]
    ELSE [c1 EXCEPT !.ret = 0]

\* every window is destroyed and the library is left uninitialised
glfwTerminate(c) ==
  [Call(c, <<"glfwTerminate">>) EXCEPT
     !.glfw.initialized = FALSE, !.glfw.windows = EmptyFn,
     !.glfw.context = 0, !.glfw.loaded = FALSE, !.glfw.hints = FALSE]

glfwMakeContextCurrent(c, w) ==
  LET c1 == Call(c, <<"glfwMakeContextCurrent", w>>) IN
  IF w = 0 \/ w \in DOMAIN c.glfw.windows
    THEN [c1 EXCEPT !.glfw.context = w] ELSE c1

\* loads: whether every GL entry point resolves; needs a current context
gladLoadGLLoader(c, loads) ==
  LET ok == loads /\ c.glfw.context # 0 IN
  [Call(c, <<"gladLoadGLLoader">>) EXCEPT !.glfw.loaded = @ \/ ok,
                                           !.ret = BoolToInt(ok)]

\* the viewport belongs to the context that is current
glViewport(c, x, y, width, height) ==
  LET c1 == Call(c, <<"glViewport", x, y, width, height>>) IN
  IF c.glfw.context \in DOMAIN c.glfw.windows
    THEN [c1 EXCEPT !.glfw.windows[c.glfw.context].viewport = <<x, y, width, height>>]
    ELSE c1

glfwSetFramebufferSizeCallback(c, w) ==
  LET c1 == Call(c, <<"glfwSetFramebufferSizeCallback", w>>) IN
  IF w \in DOMAIN c.glfw.windows
    THEN [c1 EXCEPT !.glfw.windows[w].resizeCallback = TRUE] ELSE c1

glfwDestroyWindow(c, w) ==
  LET c1 == Call(c, <<"glfwDestroyWindow", w>>) IN
  IF w \in DOMAIN c.glfw.windows
    THEN [c1 EXCEPT !.glfw.windows = Without(@, w),
                    !.glfw.context = IF @ = w THEN 0 ELSE @]
    ELSE c1

glfwWindowShouldClose(c, w) ==
  [Call(c, <<"glfwWindowShouldClose", w>>) EXCEPT
     !.ret = IF w \in DOMAIN c.glfw.windows
               THEN BoolToInt(c.glfw.windows[w].shouldClose) ELSE 0]

glfwSetWindowShouldClose(c, w, flag) ==
  LET c1 == Call(c, <<"glfwSetWindowShouldClose", w>>) IN
  IF w \in DOMAIN c.glfw.windows
    THEN [c1 EXCEPT !.glfw.windows[w].shouldClose = flag] ELSE c1

\* pressed: whether the last reported state of the key is GLFW_PRESS
glfwGetKey(c, w, pressed) ==
  [Call(c, <<"glfwGetKey", w>>) EXCEPT
     !.ret = BoolToInt(pressed /\ w \in DOMAIN c.glfw.windows)]

glfwSwapBuffers(c, w) == Call(c, <<"glfwSwapBuffers", w>>)

(* ------------------------------- Window ------------------------------- *)
\* the callback with its two size arguments exchanged
Window_framebuffer_size_callback_Swapped(c, window, width, height) ==
  glViewport(c, 0, 0, height, width)

Window_framebuffer_size_callback(c, window, width, height) ==
  glViewport(c, 0, 0, width, height)

\* an event the platform has queued: nothing, a framebuffer resize of a
\* window, or a close request for a window
Sizes == {<<800, 600>>, <<640, 480>>}
Events(g) ==
  {[type |-> "none", window |-> 0, size |-> <<0, 0>>]}
  \cup {[type |-> "resize", window |-> w, size |-> sz] : w \in DOMAIN g.windows, sz \in Sizes}
  \cup {[type |-> "close", window |-> w, size |-> <<0, 0>>] : w \in DOMAIN g.windows}

\* glfwPollEvents delivers the queued event: a resize goes to the window's
\* callback if one is registered, a close request sets the close flag
glfwPollEvents(c, event) ==
  LET c1 == Call(c, <<"glfwPollEvents">>) IN
  IF ~c.glfw.initialized \/ event.window \notin DOMAIN c.glfw.windows THEN c1
  ELSE IF event.type = "resize" /\ c.glfw.windows[event.window].resizeCallback
    THEN Window_framebuffer_size_callback(c1, event.window, event.size[1], event.size[2])
  ELSE IF event.type = "close"
    THEN [c1 EXCEPT !.glfw.windows[event.window].shouldClose = TRUE]
  ELSE c1

\* the constructor with the GLAD check dropped: a failed load goes on to the
\* viewport and the callback
Window_Window_NoGladCheck(c, width, height, initOK, createOK, gladOK) ==
  LET c1 == glfwInit(c, initOK)
      c2 == glfwWindowHint(c1, "GLFW_CONTEXT_VERSION_MAJOR")
      c3 == glfwWindowHint(c2, "GLFW_CONTEXT_VERSION_MINOR")
      c4 == glfwWindowHint(c3, "GLFW_OPENGL_PROFILE")
      c5 == glfwCreateWindow(c4, width, height, createOK)
      window == c5.ret
      c6 == glfwMakeContextCurrent(c5, window)
      c7 == gladLoadGLLoader(c6, gladOK)
      c8 == glViewport(c7, 0, 0, width, height)
      c9 == glfwSetFramebufferSizeCallback(c8, window)
  IN IF c1.ret = 0
       THEN Throw(c1, "std::runtime_error: Failed to initialize GLFW")
     ELSE IF window = 0
       THEN Throw(glfwTerminate(c5), "std::runtime_error: Failed to create GLFW window")
     ELSE [c9 EXCEPT !.ret = [window |-> window, width |-> width,
                              height |-> height, alive |-> TRUE]]

\* the constructor setting the viewport as soon as the window exists, before
\* its context is current and the GL functions are loaded
Window_Window_EarlyViewport(c, width, height, initOK, createOK, gladOK) ==
  LET c1 == glfwInit(c, initOK)
      c2 == glfwWindowHint(c1, "GLFW_CONTEXT_VERSION_MAJOR")
      c3 == glfwWindowHint(c2, "GLFW_CONTEXT_VERSION_MINOR")
      c4 == glfwWindowHint(c3, "GLFW_OPENGL_PROFILE")
      c5 == glfwCreateWindow(c4, width, height, createOK)
      window == c5.ret
      c6 == glViewport(c5, 0, 0, width, height)
      c7 == gladLoadGLLoader(glfwMakeContextCurrent(c6, window), gladOK)
      c9 == glfwSetFramebufferSizeCallback(c7, window)
  IN IF c1.ret = 0
       THEN Throw(c1, "std::runtime_error: Failed to initialize GLFW")
     ELSE IF window = 0
       THEN Throw(glfwTerminate(c5), "std::runtime_error: Failed to create GLFW window")
     ELSE IF c7.ret = 0
       THEN Throw(c7, "std::runtime_error: Failed to initialize GLAD")
     ELSE [c9 EXCEPT !.ret = [window |-> window, width |-> width,
                              height |-> height, alive |-> TRUE]]

Window_Window(c, width, height, initOK, createOK, gladOK) ==
  LET c1 == glfwInit(c, initOK)
      c2 == glfwWindowHint(c1, "GLFW_CONTEXT_VERSION_MAJOR")
      c3 == glfwWindowHint(c2, "GLFW_CONTEXT_VERSION_MINOR")
      c4 == glfwWindowHint(c3, "GLFW_OPENGL_PROFILE")
      c5 == glfwCreateWindow(c4, width, height, createOK)
      window == c5.ret
      c6 == glfwMakeContextCurrent(c5, window)
      c7 == gladLoadGLLoader(c6, gladOK)
      c8 == glViewport(c7, 0, 0, width, height)
      c9 == glfwSetFramebufferSizeCallback(c8, window)
  IN IF c1.ret = 0
       THEN Throw(c1, "std::runtime_error: Failed to initialize GLFW")
     ELSE IF window = 0
       THEN Throw(glfwTerminate(c5), "std::runtime_error: Failed to create GLFW window")
     ELSE IF c7.ret = 0
       THEN Throw(c7, "std::runtime_error: Failed to initialize GLAD")
     ELSE [c9 EXCEPT !.ret = [window |-> window, width |-> width,
                              height |-> height, alive |-> TRUE]]

Window_windowShouldClose(c, self) == glfwWindowShouldClose(c, self.window)

Window_swapBuffers(c, self) == glfwSwapBuffers(c, self.window)

Window_pollEvents(c, self, event) == glfwPollEvents(c, event)

\* processInput writing the key state into the close flag on every call
Window_processInput_CopiesKey(c, self, pressed) ==
  IF self.window = 0 THEN c
  ELSE LET c1 == glfwGetKey(c, self.window, pressed) IN
       glfwSetWindowShouldClose(c1, self.window, c1.ret = 1)

Window_processInput(c, self, pressed) ==
  IF self.window = 0 THEN c
  ELSE LET c1 == glfwGetKey(c, self.window, pressed) IN
       IF c1.ret = 1 THEN glfwSetWindowShouldClose(c1, self.window, TRUE) ELSE c1

\* a destructor that releases only its own platform window
Window_dtor_KeepsLibrary(c, self) == glfwDestroyWindow(c, self.window)

Window_dtor(c, self) == glfwTerminate(glfwDestroyWindow(c, self.window))

(* ------------------------- initial states ----------------------------- *)
\* a fresh OpenGL context
GLInit ==
  [shaders |-> EmptyFn, programs |-> EmptyFn, nextName |-> 1, current |-> 0,
   error |-> "GL_NO_ERROR",
   textures |-> [t \in {0} |-> DefaultTexture], nextTex |-> 1,
   activeUnit |-> 0, unitTex |-> [u \in Units |-> 0],
   vaos |-> EmptyFn, buffers |-> EmptyFn, nextVAO |-> 1, nextBuf |-> 1,
   boundVAO |-> 0, arrayBuffer |-> 0, fetched |-> [indices |-> {}, floats |-> {}]]

\* the windowing library before glfwInit()
GLFWInit ==
  [initialized |-> FALSE, windows |-> EmptyFn, nextWindow |-> 1,
   context |-> 0, loaded |-> FALSE, hints |-> FALSE]

\* the windowing library once a Window has been constructed: one window,
\* its context current, the GL function table loaded
GLFWReady ==
  [initialized |-> TRUE,
   windows |-> [w \in {1} |-> [shouldClose |-> FALSE, resizeCallback |-> TRUE,
                               viewport |-> <<0, 0, 800, 600>>]],
   nextWindow |-> 2, context |-> 1, loaded |-> TRUE, hints |-> TRUE]

NoOp == [name |-> "none", obj |-> 0, args |-> <<>>]

InitObjects ==
  /\ stbFlip = FALSE
  /\ shaderObjs = <<>>
  /\ texObjs = <<>>
  /\ meshObjs = <<>>
  /\ winObjs = <<>>
  /\ calls = <<>>
  /\ cerr = <<>>
  /\ cout = <<>>
  /\ thrown = "none"
  /\ op = NoOp

\* the state in which Shader and Texture objects are used: after a Window
\* has been constructed
InitLib ==
  /\ InitObjects
  /\ gl = GLInit
  /\ glfw = GLFWReady
  /\ pc = "lib"
  /\ loc = EmptyFn

(* --------------------- Shader objects in use -------------------------- *)
VertexPath == "shaders/vs/vertthing.vert"
FragmentPath == "shaders/fs/fragthing.frag"

NewShader ==
  /\ Len(shaderObjs) < MaxShaders
  /\ \E vOpen, fOpen, vCompiles, fCompiles, links \in BOOLEAN, layout \in Layouts :
       LET r == Shader_Shader(Ctx, VertexPath, FragmentPath, vOpen, fOpen,
                              vCompiles, fCompiles, links, layout) IN
       /\ Commit(r)
       /\ shaderObjs' = IF r.exc = "none"
                          THEN Append(shaderObjs, [ID |-> r.ret, alive |-> TRUE])
                          ELSE shaderObjs
       /\ op' = [name |-> "Shader", obj |-> Len(shaderObjs) + 1,
                 args |-> <<vOpen, fOpen>>]
  /\ UNCHANGED <<texObjs, winObjs, meshObjs, pc, loc>>

Initialize ==
  /\ \E i \in DOMAIN shaderObjs :
       /\ shaderObjs[i].alive
       /\ Commit(Shader_initialize(Ctx, shaderObjs[i]))
       /\ op' = [name |-> "initialize", obj |-> i, args |-> <<>>]
  /\ UNCHANGED <<shaderObjs, texObjs, winObjs, meshObjs, pc, loc>>

SetBool ==
  /\ \E i \in DOMAIN shaderObjs, name \in UniformNames, value \in BOOLEAN :
       /\ shaderObjs[i].alive
       /\ Commit(Shader_setBool(Ctx, shaderObjs[i], name, value))
       /\ op' = [name |-> "setBool", obj |-> i, args |-> <<name, BoolToInt(value)>>]
  /\ UNCHANGED <<shaderObjs, texObjs, winObjs, meshObjs, pc, loc>>

SetInt ==
  /\ \E i \in DOMAIN shaderObjs, name \in UniformNames, value \in Values :
       /\ shaderObjs[i].alive
       /\ Commit(Shader_setInt(Ctx, shaderObjs[i], name, value))
       /\ op' = [name |-> "setInt", obj |-> i, args |-> <<name, value>>]
  /\ UNCHANGED <<shaderObjs, texObjs, winObjs, meshObjs, pc, loc>>

SetFloat ==
  /\ \E i \in DOMAIN shaderObjs, name \in UniformNames, value \in Values :
       /\ shaderObjs[i].alive
       /\ Commit(Shader_setFloat(Ctx, shaderObjs[i], name, value))
       /\ op' = [name |-> "setFloat", obj |-> i, args |-> <<name, value>>]
  /\ UNCHANGED <<shaderObjs, texObjs, winObjs, meshObjs, pc, loc>>

DestroyShader ==
  /\ \E i \in DOMAIN shaderObjs :
       /\ shaderObjs[i].alive
       /\ Commit(Shader_dtor(Ctx, shaderObjs[i]))
       /\ shaderObjs' = [shaderObjs EXCEPT ![i].alive = FALSE]
       /\ op' = [name |-> "~Shader", obj |-> i, args |-> <<>>]
  /\ UNCHANGED <<texObjs, winObjs, meshObjs, pc, loc>>

NextShader == NewShader \/ Initialize \/ SetBool \/ SetInt \/ SetFloat

SpecShader == InitLib /\ [][NextShader]_vars

\* Shader objects from construction to the end of their lifetime
NextShaderLife == NextShader \/ DestroyShader

SpecShaderLife == InitLib /\ [][NextShaderLife]_vars

(* ------------------- claims about Shader (SpecShader) ----------------- *)
CallNames(cs) == [i \in DOMAIN cs |-> cs[i][1]]
IsInfoLog(entry) == entry[1] \in {"glGetShaderInfoLog", "glGetProgramInfoLog"}
IsCompileDiagnostic(line) ==
  line \in {"ERROR::SHADER::VERTEX::COMPILATION_FAILED",
            "ERROR::SHADER::FRAGMENT::COMPILATION_FAILED"}

\* the Shader object the last operation was called on, and its two stages
LastShader == shaderObjs[op.obj]
StageOf(ID, type) ==
  CHOOSE h \in gl.programs[ID].attached : gl.shaders[h].type = type
VertexFailed == ~gl.shaders[StageOf(LastShader.ID, "GL_VERTEX_SHADER")].compiled
FragmentFailed == ~gl.shaders[StageOf(LastShader.ID, "GL_FRAGMENT_SHADER")].compiled
ReadFailed == gl.shaders[StageOf(LastShader.ID, "GL_VERTEX_SHADER")].source = ""
LinkFailed == ~gl.programs[LastShader.ID].linked
ConstructionFailed == ReadFailed \/ VertexFailed \/ FragmentFailed \/ LinkFailed

\* the calls of a construction that creates stages v, f and program p
FullSequence(v, f, p) ==
  << <<"glCreateShader", "GL_VERTEX_SHADER">>, <<"glShaderSource", v>>,
     <<"glCompileShader", v>>, <<"glGetShaderiv", v>>,
     <<"glCreateShader", "GL_FRAGMENT_SHADER">>, <<"glShaderSource", f>>,
     <<"glCompileShader", f>>, <<"glGetShaderiv", f>>,
     <<"glCreateProgram">>, <<"glAttachShader", p, v>>, <<"glAttachShader", p, f>>,
     <<"glLinkProgram", p>>, <<"glGetProgramiv", p>>,
     <<"glDeleteShader", v>>, <<"glDeleteShader", f>> >>

SourceOf(type) == gl.shaders[StageOf(LastShader.ID, type)].source
IsReadError(line) == line = "ERROR::SHADER::FILE_NOT_SUCCESFULLY_READ"

\* C28: in Shader construction the two stage sources are both the full
\* contents of their files, or both empty: if either file cannot be opened
\* the file-read error is logged exactly once and the vertex and the
\* fragment source handed to the compiler are both empty, even when the
\* other file was readable.
C28_SourcesBothOrNeither ==
  (op.name = "Shader" /\ op.obj \in DOMAIN shaderObjs) =>
    IF op.args[1] /\ op.args[2]
      THEN /\ SourceOf("GL_VERTEX_SHADER") = FileText(VertexPath)
           /\ SourceOf("GL_FRAGMENT_SHADER") = FileText(FragmentPath)
           /\ SelectSeq(cerr, IsReadError) = <<>>
      ELSE /\ SourceOf("GL_VERTEX_SHADER") = ""
           /\ SourceOf("GL_FRAGMENT_SHADER") = ""
           /\ Len(SelectSeq(cerr, IsReadError)) = 1

C28_Witness ==
  /\ op.name = "Shader" /\ op.obj \in DOMAIN shaderObjs
  /\ op.args = <<TRUE, FALSE>>
  /\ SourceOf("GL_VERTEX_SHADER") = ""
  /\ Len(SelectSeq(cerr, IsReadError)) = 1

\* C6: the Shader constructor throws std::runtime_error if file reading,
\* compilation or linking fails.
C6_ThrowsOnFailure ==
  (op.name = "Shader" /\ op.obj \in DOMAIN shaderObjs /\ ConstructionFailed)
    => IsRuntimeError(thrown)

Setters == {"setBool", "setInt", "setFloat"}
SetterType(setter) == IF setter = "setFloat" THEN "float" ELSE "int"

\* C7: a setter called on Shader S with the name of one of S's uniforms (of
\* the setter's type) sets that uniform of S's own program, whichever
\* program is in use, and changes no uniform of another program.
C7_SetterWritesOwnProgram ==
  [][ (/\ op'.name \in Setters
       /\ gl.current # 0
       /\ op'.args[1] \in DOMAIN gl.programs[shaderObjs[op'.obj].ID].uloc
       /\ UniformType(op'.args[1]) = SetterType(op'.name))
      => LET ID == shaderObjs[op'.obj].ID
             l == gl.programs[ID].uloc[op'.args[1]] IN
         /\ gl'.programs[ID].uval[l] = op'.args[2]
         /\ \A q \in DOMAIN gl.programs \ {ID} :
              gl'.programs[q].uval = gl.programs[q].uval ]_vars

\* C8: a setter called with a name that is no active uniform of the Shader's
\* program is a no-op: nothing is thrown or logged, and the uniforms of every
\* program, the program in use and the Shader's ID stay as they were.
C8_UnknownNameIsNoOp ==
  [][ (/\ op'.name \in Setters
       /\ op'.args[1] \notin DOMAIN gl.programs[shaderObjs[op'.obj].ID].uloc)
      => /\ thrown' = "none"
         /\ cerr' = <<>>
         /\ gl'.programs = gl.programs
         /\ gl'.current = gl.current
         /\ shaderObjs' = shaderObjs ]_vars

C8_Witness ==
  /\ op.name \in Setters
  /\ op.args[1] \notin DOMAIN gl.programs[LastShader.ID].uloc
  /\ gl.current # 0
  /\ 0 \in DOMAIN gl.programs[gl.current].uval
  /\ op.args[2] = 1

(* --------------------- Texture objects in use ------------------------- *)
NewTexture ==
  /\ Len(texObjs) < MaxTextures
  /\ \E filepath \in ImagePaths, textureUnit \in Units, decoded \in BOOLEAN,
        channels \in Channels :
       /\ channels = ChannelsOf(filepath)
       /\ LET r == Texture_Texture(Ctx, filepath, textureUnit, decoded, channels) IN
            /\ Commit(r)
            /\ texObjs' = IF r.exc = "none" THEN Append(texObjs, r.ret) ELSE texObjs
            /\ op' = [name |-> "Texture", obj |-> Len(texObjs) + 1,
                      args |-> <<filepath, decoded, channels>>]
  /\ UNCHANGED <<shaderObjs, winObjs, meshObjs, pc, loc>>

LoadImage ==
  /\ \E i \in DOMAIN texObjs, filepath \in ImagePaths, decoded \in BOOLEAN,
        channels \in Channels :
       /\ channels = ChannelsOf(filepath)
       /\ texObjs[i].alive
       /\ Commit(Texture_load_image(Ctx, texObjs[i], filepath, decoded, channels))
       /\ op' = [name |-> "load_image", obj |-> i,
                 args |-> <<filepath, decoded, channels>>]
  /\ UNCHANGED <<shaderObjs, texObjs, winObjs, meshObjs, pc, loc>>

\* the argument recorded is the set of Textures bound by the bind() calls
\* made in a row up to and including this one
Bind ==
  /\ \E i \in DOMAIN texObjs :
       /\ texObjs[i].alive
       /\ Commit(Texture_bind(Ctx, texObjs[i]))
       /\ op' = [name |-> "bind", obj |-> i,
                 args |-> <<(IF op.name = "bind" THEN op.args[1] ELSE {}) \cup {i}>>]
  /\ UNCHANGED <<shaderObjs, texObjs, winObjs, meshObjs, pc, loc>>

Unbind ==
  /\ \E i \in DOMAIN texObjs :
       /\ texObjs[i].alive
       /\ Commit(Texture_unbind(Ctx, texObjs[i]))
       /\ op' = [name |-> "unbind", obj |-> i, args |-> <<>>]
  /\ UNCHANGED <<shaderObjs, texObjs, winObjs, meshObjs, pc, loc>>

DestroyTexture ==
  /\ \E i \in DOMAIN texObjs :
       /\ texObjs[i].alive
       /\ Commit(Texture_dtor(Ctx, texObjs[i]))
       /\ texObjs' = [texObjs EXCEPT ![i].alive = FALSE]
       /\ op' = [name |-> "~Texture", obj |-> i, args |-> <<>>]
  /\ UNCHANGED <<shaderObjs, winObjs, meshObjs, pc, loc>>

NextTexture == NewTexture \/ LoadImage \/ Bind \/ Unbind \/ DestroyTexture

SpecTexture == InitLib /\ [][NextTexture]_vars

(* ------------------ claims about Texture (SpecTexture) ---------------- *)
LastTexture == texObjs[op.obj]
HasCall(name) == \E i \in DOMAIN calls : calls[i][1] = name

\* C9: load_image called on an existing Texture T with a file that decodes
\* replaces the image of T's own GPU texture and of no other texture,
\* whatever was constructed or bound since T was constructed.
C9_LoadImageHitsOwnTexture ==
  [][ (op'.name = "load_image" /\ op'.args[2])
      => LET ID == texObjs[op'.obj].ID IN
         /\ gl'.textures[ID].image.pixels.file = op'.args[1]
         /\ \A t \in DOMAIN gl.textures \ {ID} : gl'.textures[t] = gl.textures[t] ]_vars

\* C10: constructing a Texture whose image cannot be decoded logs an error,
\* throws nothing, uploads no image and generates no mipmaps, and leaves the
\* handle allocated with repeat wrapping and linear filtering; bind() and
\* unbind() then work on it as on any other Texture.
C10_DecodeFailureLeavesBareTexture ==
  /\ (op.name = "Texture" /\ ~op.args[2]) =>
       /\ thrown = "none"
       /\ cerr = <<"Failed to load texture">>
       /\ ~HasCall("glTexImage2D") /\ ~HasCall("glGenerateMipmap")
       /\ op.obj \in DOMAIN texObjs
       /\ LastTexture.ID # 0
       /\ LastTexture.ID \in DOMAIN gl.textures
       /\ gl.textures[LastTexture.ID] =
            [wrapS |-> "GL_REPEAT", wrapT |-> "GL_REPEAT",
             minFilter |-> "GL_LINEAR", magFilter |-> "GL_LINEAR",
             image |-> NoImage, mipmaps |-> FALSE]
  /\ op.name = "bind" =>
       /\ thrown = "none"
       /\ gl.activeUnit = LastTexture.unit
       /\ gl.unitTex[LastTexture.unit] = LastTexture.ID
  /\ op.name = "unbind" =>
       /\ thrown = "none"
       /\ gl.unitTex[gl.activeUnit] = 0

C10_Witness ==
  /\ op.name = "bind"
  /\ gl.textures[LastTexture.ID].image = NoImage
  /\ gl.textures[LastTexture.ID].minFilter = "GL_LINEAR"
  /\ gl.unitTex[LastTexture.unit] = LastTexture.ID

C12_UnbindClearsActiveUnit ==
  [][ op'.name = "unbind"
      => /\ gl'.activeUnit = gl.activeUnit
         /\ gl'.unitTex[gl.activeUnit] = 0
         /\ \A u \in Units \ {gl.activeUnit} : gl'.unitTex[u] = gl.unitTex[u] ]_vars

C12_Witness ==
  /\ op.name = "unbind"
  /\ gl.activeUnit # LastTexture.unit
  /\ gl.unitTex[gl.activeUnit] = 0
  /\ gl.unitTex[LastTexture.unit] = LastTexture.ID

UploadCalls(filepath) ==
  << <<"stbi_load", filepath>>, <<"glTexImage2D", "GL_RGB", "GL_RGB">>,
     <<"glGenerateMipmap">>, <<"stbi_image_free">> >>

\* C14: when the file decodes, the image is uploaded with internal format
\* and source format RGB whatever the decoded channel count (1, 2, 3 or 4)
\* is, and mipmaps are generated right after the upload: the calls made do
\* not depend on the channel count.
C14_UploadAlwaysRGB ==
  /\ (op.name = "load_image" /\ op.args[2]) => calls = UploadCalls(op.args[1])
  /\ (op.name = "Texture" /\ op.args[2]) =>
       /\ SubSeq(calls, Len(calls) - 3, Len(calls)) = UploadCalls(op.args[1])
       /\ gl.textures[LastTexture.ID].image.internalFormat = "GL_RGB"
       /\ gl.textures[LastTexture.ID].image.format = "GL_RGB"
       /\ gl.textures[LastTexture.ID].image.pixels.channels = op.args[3]
       /\ gl.textures[LastTexture.ID].mipmaps

C14_Witness ==
  /\ op.name = "Texture" /\ op.args[2] /\ op.args[3] = 4
  /\ gl.textures[LastTexture.ID].image.format = "GL_RGB"
  /\ gl.textures[LastTexture.ID].image.pixels.channels = 4
  /\ gl.textures[LastTexture.ID].mipmaps

(* ---------------------- Window objects in use ------------------------- *)
InitWindow ==
  /\ InitObjects
  /\ gl = GLInit
  /\ glfw = GLFWInit
  /\ pc = "lib"
  /\ loc = EmptyFn

\* the construction step that fails, given what the platform does
FailingStep(initOK, createOK, gladOK) ==
  IF ~(glfw.initialized \/ initOK) THEN "glfwInit"
  ELSE IF ~createOK THEN "glfwCreateWindow"
  ELSE IF ~gladOK THEN "gladLoadGLLoader"
  ELSE "none"

\* at most MaxWindows platform windows are ever created
NewWindow ==
  /\ glfw.nextWindow <= MaxWindows
  /\ \E size \in Sizes, initOK, createOK, gladOK \in BOOLEAN :
       LET r == Window_Window(Ctx, size[1], size[2], initOK, createOK, gladOK) IN
       /\ Commit(r)
       /\ winObjs' = IF r.exc = "none" THEN Append(winObjs, r.ret) ELSE winObjs
       /\ op' = [name |-> "Window", obj |-> Len(winObjs) + 1,
                 args |-> <<FailingStep(initOK, createOK, gladOK)>>]
  /\ UNCHANGED <<shaderObjs, texObjs, meshObjs, pc, loc>>

\* a live Window object whose platform window still exists
Usable(i) == winObjs[i].alive /\ winObjs[i].window \in DOMAIN glfw.windows

WindowShouldClose ==
  /\ \E i \in DOMAIN winObjs :
       /\ Usable(i)
       /\ Commit(Window_windowShouldClose(Ctx, winObjs[i]))
       /\ op' = [name |-> "windowShouldClose", obj |-> i, args |-> <<>>]
  /\ UNCHANGED <<shaderObjs, texObjs, winObjs, meshObjs, pc, loc>>

SwapBuffers ==
  /\ \E i \in DOMAIN winObjs :
       /\ Usable(i)
       /\ Commit(Window_swapBuffers(Ctx, winObjs[i]))
       /\ op' = [name |-> "swapBuffers", obj |-> i, args |-> <<>>]
  /\ UNCHANGED <<shaderObjs, texObjs, winObjs, meshObjs, pc, loc>>

PollEvents ==
  /\ \E i \in DOMAIN winObjs, event \in Events(glfw) :
       /\ Usable(i)
       /\ Commit(Window_pollEvents(Ctx, winObjs[i], event))
       /\ op' = [name |-> "pollEvents", obj |-> i, args |-> <<event>>]
  /\ UNCHANGED <<shaderObjs, texObjs, winObjs, meshObjs, pc, loc>>

ProcessInput ==
  /\ \E i \in DOMAIN winObjs, pressed \in BOOLEAN :
       /\ Usable(i)
       /\ Commit(Window_processInput(Ctx, winObjs[i], pressed))
       /\ op' = [name |-> "processInput", obj |-> i, args |-> <<pressed>>]
  /\ UNCHANGED <<shaderObjs, texObjs, winObjs, meshObjs, pc, loc>>

DestroyWindow ==
  /\ \E i \in DOMAIN winObjs :
       /\ winObjs[i].alive
       /\ Commit(Window_dtor(Ctx, winObjs[i]))
       /\ winObjs' = [winObjs EXCEPT ![i].alive = FALSE]
       /\ op' = [name |-> "~Window", obj |-> i, args |-> <<>>]
  /\ UNCHANGED <<shaderObjs, texObjs, meshObjs, pc, loc>>

NextWindow ==
  \/ NewWindow \/ WindowShouldClose \/ SwapBuffers
  \/ PollEvents \/ ProcessInput \/ DestroyWindow

SpecWindow == InitWindow /\ [][NextWindow]_vars

(* ------------------- claims about Window (SpecWindow) ----------------- *)
LastCall == calls[Len(calls)][1]

\* C2: when library initialisation, window creation or GL function loading
\* fails, Window construction throws std::runtime_error at that step: no
\* Window object comes into existence and neither the initial viewport nor
\* the resize callback is set.
C2_ConstructionFailsFast ==
  (op.name = "Window" /\ op.args[1] # "none") =>
    /\ IsRuntimeError(thrown)
    /\ op.obj \notin DOMAIN winObjs
    /\ ~HasCall("glViewport")
    /\ ~HasCall("glfwSetFramebufferSizeCallback")
    /\ \A i \in DOMAIN calls :
         calls[i][1] = op.args[1] =>
           \A j \in (i + 1) .. Len(calls) : calls[j][1] = "glfwTerminate"

C2_Witness ==
  /\ op.name = "Window" /\ op.args[1] = "gladLoadGLLoader"
  /\ IsRuntimeError(thrown)
  /\ LastCall = "gladLoadGLLoader"
  /\ Len(winObjs) = 1

\* the viewport of the context that is current, <<>> without a context
Viewport(g) ==
  IF g.context \in DOMAIN g.windows THEN g.windows[g.context].viewport ELSE <<>>

\* the platform window belongs to a Window object that was constructed and
\* not destroyed
Constructed(w) == \E i \in DOMAIN winObjs : Usable(i) /\ winObjs[i].window = w

\* C21: once a Window is constructed, every framebuffer-resize event (w, h)
\* delivered for it sets the viewport to (0, 0, w, h), and no other Window
\* operation than a delivered resize changes the viewport: after any
\* sequence of resize events the viewport is the size reported last.
C21_ResizeSetsViewport ==
  [][ /\ (op'.name = "pollEvents" /\ op'.args[1].type = "resize"
            /\ Constructed(op'.args[1].window))
          => Viewport(glfw') = <<0, 0, op'.args[1].size[1], op'.args[1].size[2]>>
      /\ (\/ op'.name \in {"windowShouldClose", "swapBuffers", "processInput"}
          \/ (op'.name = "pollEvents" /\ op'.args[1].type # "resize"))
          => Viewport(glfw') = Viewport(glfw) ]_vars

C21_Witness ==
  /\ op.name = "pollEvents" /\ op.args[1].type = "resize"
  /\ Len(winObjs) = 2 /\ Usable(1) /\ Usable(2)
  /\ op.args[1].window = winObjs[1].window
  /\ Viewport(glfw) = <<0, 0, op.args[1].size[1], op.args[1].size[2]>>
  /\ op.args[1].size # <<winObjs[2].width, winObjs[2].height>>

\* the close flag of every platform window
CloseFlags(g) == [w \in DOMAIN g.windows |-> g.windows[w].shouldClose]

\* C22: processInput() sets the close flag of its window exactly when the
\* handle is non-null and the escape key is pressed; otherwise the flag is
\* left as it was, a flag that is set is never cleared, and no other
\* window's flag changes.
C22_ProcessInputSetsCloseFlag ==
  [][ op'.name = "processInput" =>
        LET self == winObjs[op'.obj]
            pressed == op'.args[1]
        IN CloseFlags(glfw') =
             [w \in DOMAIN glfw.windows |->
                IF w = self.window /\ self.window # 0 /\ pressed
                  THEN TRUE ELSE CloseFlags(glfw)[w]] ]_vars

C22_Witness ==
  /\ op.name = "processInput" /\ op.args[1] = FALSE
  /\ Len(winObjs) = 2
  /\ CloseFlags(glfw)[winObjs[op.obj].window]
  /\ \E w \in DOMAIN glfw.windows : ~CloseFlags(glfw)[w]

\* C23: destroying a Window destroys its platform window first and then
\* terminates the windowing library for the whole process: afterwards the
\* library is uninitialised and no platform window exists, even if another
\* Window object is still alive.
C23_DestructionTerminatesLibrary ==
  op.name = "~Window" =>
    /\ calls = << <<"glfwDestroyWindow", winObjs[op.obj].window>>,
                  <<"glfwTerminate">> >>
    /\ ~glfw.initialized
    /\ glfw.windows = EmptyFn
    /\ glfw.context = 0

C23_Witness ==
  /\ op.name = "~Window"
  /\ ~glfw.initialized
  /\ \E i \in DOMAIN winObjs :
       /\ i # op.obj /\ winObjs[i].alive
       /\ winObjs[i].window \notin DOMAIN glfw.windows

(* -------------------------- the main programs ------------------------- *)
\* main.cpp holds two revisions of main(): rev 1 (lines 48-172) draws the
\* textured hexagon through the Shader class, rev 2 (lines 277-429) compiles
\* its shaders by hand.  loc holds the locals of main().
IndexCount == 18
MainIndices == <<0, 1, 2, 0, 2, 3, 0, 3, 4, 0, 4, 5, 0, 5, 6, 0, 6, 1>>
MainUniforms(rev) == IF rev = 1 THEN {"myTexture"} ELSE {"myColor"}

InitMain ==
  /\ InitObjects
  /\ gl = GLInit
  /\ glfw = GLFWInit
  /\ pc = "glfwInit"
  /\ \E rev \in {1, 2} :
       loc = [rev |-> rev, window |-> 0, shaderprog |-> 0, vertexShader |-> 0,
              fragmentShader |-> 0, vertexSource |-> "", fragmentSource |-> "",
              VAO |-> 0, VBO |-> 0, EBO |-> 0, texture |-> 0,
              frames |-> 0, exitCode |-> 0]

MainStep(r, label, nextPc, nextLoc) ==
  /\ Commit(r)
  /\ op' = [name |-> "main", obj |-> 0, args |-> <<label>>]
  /\ pc' = nextPc
  /\ loc' = nextLoc
  /\ UNCHANGED <<texObjs, winObjs, meshObjs>>

Return(r, label, code) ==
  MainStep(r, label, "exit", [loc EXCEPT !.exitCode = code])

Main_glfwInit ==
  /\ pc = "glfwInit"
  /\ \E initOK \in BOOLEAN :
       LET r == glfwInit(CtxMain, initOK) IN
       IF r.ret = 0
         THEN Return(Cerr(r, "Failed to initialize GLFW"), "glfwInit", -1)
         ELSE MainStep(r, "glfwInit", "createWindow", loc)
  /\ UNCHANGED shaderObjs

Main_createWindow ==
  /\ pc = "createWindow"
  /\ \E createOK \in BOOLEAN :
       LET c1 == glfwWindowHint(CtxMain, "GLFW_CONTEXT_VERSION_MAJOR")
           c2 == glfwWindowHint(c1, "GLFW_CONTEXT_VERSION_MINOR")
           c3 == glfwWindowHint(c2, "GLFW_OPENGL_PROFILE")
           c4 == glfwCreateWindow(c3, 800, 600, createOK) IN
       IF c4.ret = 0
         THEN Return(glfwTerminate(Cerr(c4, "Failed to create GLFW window")),
                     "createWindow", -1)
         ELSE MainStep(c4, "createWindow", "loadGL", [loc EXCEPT !.window = c4.ret])
  /\ UNCHANGED shaderObjs

Main_loadGL ==
  /\ pc = "loadGL"
  /\ \E gladOK \in BOOLEAN :
       LET c1 == glfwMakeContextCurrent(CtxMain, loc.window)
           c2 == glfwSetFramebufferSizeCallback(c1, loc.window)
           c3 == gladLoadGLLoader(c2, gladOK) IN
       IF c3.ret = 0
         THEN Return(Cerr(c3, "Failed to initialize GLAD"), "loadGL", -1)
         ELSE MainStep(c3, "loadGL", IF loc.rev = 1 THEN "shader" ELSE "parse", loc)
  /\ UNCHANGED shaderObjs

Main1_shader ==
  /\ pc = "shader"
  /\ \E vOpen, fOpen, vCompiles, fCompiles, links \in BOOLEAN,
        layout \in LayoutsOver(MainUniforms(1)) :
       LET r == Shader_Shader(CtxMain, VertexPath, FragmentPath, vOpen, fOpen,
                              vCompiles, fCompiles, links, layout) IN
       /\ MainStep(r, "shader", "buffers", [loc EXCEPT !.shaderprog = r.ret])
       /\ shaderObjs' = Append(shaderObjs, [ID |-> r.ret, alive |-> TRUE])

Main1_buffers ==
  /\ pc = "buffers" /\ loc.rev = 1
  /\ LET c1 == glGenVertexArrays(CtxMain)
         VAO == c1.ret
         c2 == glGenBuffers(c1)
         VBO == c2.ret
         c3 == glGenBuffers(c2)
         EBO == c3.ret
         c4 == glBindVertexArray(c3, VAO)
         c5 == glBindBuffer(c4, "GL_ARRAY_BUFFER", VBO)
         c6 == glBufferData(c5, "GL_ARRAY_BUFFER", 7 * 8, <<>>)
         c7 == glBindBuffer(c6, "GL_ELEMENT_ARRAY_BUFFER", EBO)
         c8 == glBufferData(c7, "GL_ELEMENT_ARRAY_BUFFER", Len(MainIndices), MainIndices)
         c9 == glEnableVertexAttribArray(glVertexAttribPointer(c8, 0, 3, 8, 0), 0)
         c10 == glEnableVertexAttribArray(glVertexAttribPointer(c9, 1, 3, 8, 3), 1) IN
       MainStep(c10, "buffers", "texture",
                [loc EXCEPT !.VAO = VAO, !.VBO = VBO, !.EBO = EBO])
  /\ UNCHANGED shaderObjs

\* a decode failure returns -1 from main()
Main1_texture ==
  /\ pc = "texture"
  /\ \E decoded \in BOOLEAN, channels \in Channels :
       LET c1 == glGenTextures(CtxMain)
           texture == c1.ret
           c2 == glBindTexture(c1, texture)
           c3 == glTexParameteri(c2, "GL_TEXTURE_WRAP_S", "GL_REPEAT")
           c4 == glTexParameteri(c3, "GL_TEXTURE_WRAP_T", "GL_REPEAT")
           c5 == glTexParameteri(c4, "GL_TEXTURE_MIN_FILTER", "GL_LINEAR")
           c6 == glTexParameteri(c5, "GL_TEXTURE_MAG_FILTER", "GL_LINEAR")
           c7 == stbi_load(c6, "images/stoneimage.png", decoded, channels)
           data == c7.ret
           c8 == glGenerateMipmap(glTexImage2D(c7, "GL_RGB", "GL_RGB", data))
           c9 == stbi_image_free(c8)
           c10 == glEnableVertexAttribArray(glVertexAttribPointer(c9, 2, 2, 8, 6), 2) IN
       IF data = NullData
         THEN Return(Cerr(c7, "Failed to load texture"), "texture", -1)
         ELSE MainStep(c10, "texture", "loopTest", [loc EXCEPT !.texture = texture])
  /\ UNCHANGED shaderObjs

\* the loop condition with its negation dropped
Main_loopTest_NoNegation ==
  /\ pc = "loopTest"
  /\ LET r == glfwWindowShouldClose(CtxMain, loc.window) IN
       IF r.ret = 0
         THEN MainStep(r, "loopTest", "cleanup", loc)
         ELSE /\ loc.frames < MaxFrames
              /\ MainStep(r, "loopTest", "frame", [loc EXCEPT !.frames = @ + 1])
  /\ UNCHANGED shaderObjs

\* the loop condition; at most MaxFrames iterations are followed
Main_loopTest ==
  /\ pc = "loopTest"
  /\ LET r == glfwWindowShouldClose(CtxMain, loc.window) IN
       IF r.ret = 1
         THEN MainStep(r, "loopTest", "cleanup", loc)
         ELSE /\ loc.frames < MaxFrames
              /\ MainStep(r, "loopTest", "frame", [loc EXCEPT !.frames = @ + 1])
  /\ UNCHANGED shaderObjs

\* processInput of Util.h++ and of rev 2
processInput(c, window, pressed) ==
  LET c1 == glfwGetKey(c, window, pressed) IN
  IF c1.ret = 1 THEN glfwSetWindowShouldClose(c1, window, TRUE) ELSE c1

Main1_frame ==
  /\ pc = "frame" /\ loc.rev = 1
  /\ \E pressed \in BOOLEAN :
       LET c1 == processInput(CtxMain, loc.window, pressed)
           c2 == glClear(glClearColor(c1))
           c3 == Shader_initialize(c2, [ID |-> loc.shaderprog])
           c4 == glBindTexture(c3, loc.texture)
           c5 == glBindVertexArray(c4, loc.VAO)
           c6 == glDrawElements(c5, IndexCount, 0)
           c7 == glBindVertexArray(c6, 0) IN
       MainStep(c7, "frame", "swapPoll", loc)
  /\ UNCHANGED shaderObjs

Main_swapPoll ==
  /\ pc = "swapPoll"
  /\ \E event \in Events(glfw) :
       MainStep(glfwPollEvents(glfwSwapBuffers(CtxMain, loc.window), event),
                "swapPoll", "loopTest", loc)
  /\ UNCHANGED shaderObjs

Main1_cleanup ==
  /\ pc = "cleanup" /\ loc.rev = 1
  /\ LET c1 == glDeleteVertexArrays(CtxMain, loc.VAO)
         c2 == glDeleteBuffers(c1, loc.VBO)
         c3 == glDeleteBuffers(c2, loc.EBO)
         c4 == glfwTerminate(glfwDestroyWindow(c3, loc.window)) IN
       Return(c4, "cleanup", 0)
  /\ UNCHANGED shaderObjs

(* main(), revision 2: the shaders are compiled and linked by hand *)
Garbage == {"", "?"}

parseShader(c, filepath, opens) ==
  IF opens
    THEN [c EXCEPT !.ret = FileLines(filepath)[1] \o "\n" \o
                           FileLines(filepath)[2] \o "\n"]
    ELSE [Cerr(c, "ERROR::SHADER::FILE_NOT_READABLE") EXCEPT !.ret = ""]

compileshadersuccess(c, shader, type) ==
  LET c1 == glGetShaderiv(c, shader) IN
  IF c1.ret = 0
    THEN Cerr(glGetShaderInfoLog(c1, shader),
              "ERROR::SHADER::" \o type \o "::COMPILATION_FAILED")
    ELSE c1

\* the log is asked of a shader object although the name is a program's:
\* the buffer printed is never written, infoLog stands for its contents
linkershadersuccess(c, shader, infoLog) ==
  LET c1 == glGetProgramiv(c, shader) IN
  IF c1.ret = 0
    THEN Cerr(glGetShaderInfoLog(c1, shader),
              "ERROR::SHADER::PROGRAM::LINKING_FAILED" \o infoLog)
    ELSE c1

glfwGetTime(c) == Call(c, <<"glfwGetTime">>)

Main2_parse ==
  /\ pc = "parse"
  /\ \E vOpen, fOpen \in BOOLEAN :
       LET c1 == parseShader(CtxMain, "shaders/vertthing.vert", vOpen)
           c2 == parseShader(c1, "shaders/fragthing.frag", fOpen) IN
       MainStep(c2, "parse", "compile",
                [loc EXCEPT !.vertexSource = c1.ret, !.fragmentSource = c2.ret])
  /\ UNCHANGED shaderObjs

Main2_compile ==
  /\ pc = "compile"
  /\ \E vCompiles, fCompiles \in BOOLEAN :
       LET c1 == glCreateShader(CtxMain, "GL_VERTEX_SHADER")
           vertexShader == c1.ret
           c2 == glShaderSource(c1, vertexShader, loc.vertexSource)
           c3 == glCompileShader(c2, vertexShader, vCompiles)
           c4 == compileshadersuccess(c3, vertexShader, "VERTEX")
           c5 == glCreateShader(c4, "GL_FRAGMENT_SHADER")
           fragmentShader == c5.ret
           c6 == glShaderSource(c5, fragmentShader, loc.fragmentSource)
           c7 == glCompileShader(c6, fragmentShader, fCompiles)
           c8 == compileshadersuccess(c7, fragmentShader, "FRAGMENT") IN
       MainStep(c8, "compile", "link",
                [loc EXCEPT !.vertexShader = vertexShader,
                            !.fragmentShader = fragmentShader])
  /\ UNCHANGED shaderObjs

\* the program is linked and both stage objects are deleted
Main2_link ==
  /\ pc = "link"
  /\ \E links \in BOOLEAN, layout \in LayoutsOver(MainUniforms(2)),
        infoLog \in Garbage :
       LET c1 == glCreateProgram(CtxMain)
           shaderprog == c1.ret
           c2 == glAttachShader(c1, shaderprog, loc.vertexShader)
           c3 == glAttachShader(c2, shaderprog, loc.fragmentShader)
           c4 == glLinkProgram(c3, shaderprog, links, layout)
           c5 == linkershadersuccess(c4, shaderprog, infoLog)
           c6 == glDeleteShader(c5, loc.fragmentShader)
           c7 == glDeleteShader(c6, loc.vertexShader) IN
       MainStep(c7, "link", "buffers", [loc EXCEPT !.shaderprog = shaderprog])
  /\ UNCHANGED shaderObjs

\* attribute 0 is described once before any vertex array exists, and again
\* with the vertex array bound
Main2_buffers ==
  /\ pc = "buffers" /\ loc.rev = 2
  /\ LET c0 == glEnableVertexAttribArray(
                 glVertexAttribPointer(CtxMain, 0, 3, 3, 0), 0)
         c1 == glGenVertexArrays(c0)
         VAO == c1.ret
         c2 == glGenBuffers(c1)
         VBO == c2.ret
         c3 == glGenBuffers(c2)
         EBO == c3.ret
         c4 == glBindVertexArray(c3, VAO)
         c5 == glBindBuffer(c4, "GL_ARRAY_BUFFER", VBO)
         c6 == glBufferData(c5, "GL_ARRAY_BUFFER", 7 * 3, <<>>)
         c7 == glBindBuffer(c6, "GL_ELEMENT_ARRAY_BUFFER", EBO)
         c8 == glBufferData(c7, "GL_ELEMENT_ARRAY_BUFFER", Len(MainIndices), MainIndices)
         c9 == glEnableVertexAttribArray(glVertexAttribPointer(c8, 0, 3, 3, 0), 0) IN
       MainStep(c9, "buffers", "loopTest",
                [loc EXCEPT !.VAO = VAO, !.VBO = VBO, !.EBO = EBO])
  /\ UNCHANGED shaderObjs

\* blueValue: (sin(t) / 2) + 0.5 lies between 0 and 1
Main2_frame ==
  /\ pc = "frame" /\ loc.rev = 2
  /\ \E pressed \in BOOLEAN, blueValue \in Values :
       LET c1 == processInput(CtxMain, loc.window, pressed)
           c2 == glClear(glClearColor(c1))
           c3 == glUseProgram(c2, loc.shaderprog)
           c4 == glfwGetTime(c3)
           c5 == glGetUniformLocation(c4, loc.shaderprog, "myColor")
           c6 == glUniform4f(c5, c5.ret, <<0, 0, blueValue, 1>>)
           c7 == glBindVertexArray(c6, loc.VAO)
           c8 == glDrawElements(c7, IndexCount, 0)
           c9 == glBindVertexArray(c8, 0) IN
       MainStep(c9, "frame", "swapPoll", loc)
  /\ UNCHANGED shaderObjs

\* the two stage objects are deleted once more before the window goes
Main2_cleanup ==
  /\ pc = "cleanup" /\ loc.rev = 2
  /\ LET c1 == glDeleteVertexArrays(CtxMain, loc.VAO)
         c2 == glDeleteBuffers(c1, loc.VBO)
         c3 == glDeleteBuffers(c2, loc.EBO)
         c4 == glDeleteShader(c3, loc.vertexShader)
         c5 == glDeleteShader(c4, loc.fragmentShader)
         c6 == glfwTerminate(glfwDestroyWindow(c5, loc.window)) IN
       Return(c6, "cleanup", 0)
  /\ UNCHANGED shaderObjs

NextMain ==
  \/ Main_glfwInit \/ Main_createWindow \/ Main_loadGL
  \/ Main1_shader \/ Main1_buffers \/ Main1_texture \/ Main1_frame
  \/ Main1_cleanup
  \/ Main2_parse \/ Main2_compile \/ Main2_link \/ Main2_buffers
  \/ Main2_frame \/ Main2_cleanup
  \/ Main_loopTest \/ Main_swapPoll

SpecMain == InitMain /\ [][NextMain]_vars

(* ----------------------- claims about main() -------------------------- *)
AcquisitionSteps == {"glfwInit", "createWindow", "loadGL"}

\* C3: only a resource-acquisition failure (glfwInit, window creation, GL
\* function loading) stops the program: whenever main() has returned a
\* non-zero code, the step it returned from is one of those three; after an
\* unreadable shader file, an undecodable image, a compile or a link failure
\* the run goes on to the render loop.
C3_OnlyAcquisitionFailuresStop ==
  (pc = "exit" /\ loc.exitCode # 0) => op.args[1] \in AcquisitionSteps

StageCalls == {"glShaderSource", "glCompileShader", "glGetShaderiv",
               "glGetShaderInfoLog", "glDeleteShader"}
RefersToStage(entry, h) ==
  \/ entry[1] \in StageCalls /\ entry[2] = h
  \/ entry[1] = "glAttachShader" /\ entry[3] = h

\* C4: both stage objects are deleted after the link attempt whatever the
\* compile and link outcomes were, each exactly once, and no later call
\* names a stage object that has been deleted.
C4_StagesDeletedExactlyOnce ==
  /\ \A h \in DOMAIN gl.shaders :
       AttachedSomewhere(gl, h) => gl.shaders[h].flagged
  /\ \A i, j \in DOMAIN calls :
       (i < j /\ calls[i][1] = "glDeleteShader")
         => ~RefersToStage(calls[j], calls[i][2])

\* the calls a step of main() adds to the log
StepCalls == SubSeq(calls', Len(calls) + 1, Len(calls'))
IsLoopCall(entry) ==
  \/ entry[1] \in {"glUseProgram", "glBindTexture", "glDrawElements"}
  \/ entry[1] = "glBindVertexArray" /\ entry[2] # 0

\* C24: every iteration of the render loop activates the shader, binds the
\* texture, binds the vertex array and issues exactly one indexed draw, in
\* that order, then swaps the buffers and polls the events; the draw is
\* issued with a program in use and an allocated, non-zero vertex array
\* bound, and the body runs only when the close flag was clear at the loop
\* test.
C24_FrameOrder ==
  [][ op'.name = "main" =>
        /\ op'.args[1] = "frame" =>
             /\ op.args[1] = "loopTest"
             /\ ~glfw.windows[loc.window].shouldClose
             /\ CallNames(SelectSeq(StepCalls, IsLoopCall)) =
                  <<"glUseProgram", "glBindTexture", "glBindVertexArray",
                    "glDrawElements">>
             /\ gl'.current # 0
             /\ loc.VAO # 0 /\ loc.VAO \in DOMAIN gl'.vaos
        /\ op'.args[1] = "swapPoll" =>
             /\ op.args[1] = "frame"
             /\ Len(StepCalls) >= 2
             /\ SubSeq(CallNames(StepCalls), 1, 2) =
                  <<"glfwSwapBuffers", "glfwPollEvents">>
        /\ (op.name = "main" /\ op.args[1] = "frame") => op'.args[1] = "swapPoll"
    ]_vars

\* the close flag of the window of main()
CloseFlag(g) == loc.window \in DOMAIN g.windows /\ g.windows[loc.window].shouldClose
Count(name, cs) == Cardinality({i \in DOMAIN cs : cs[i][1] = name})

\* C26: once the close flag is set it is never cleared; no step that starts
\* with the flag set issues a draw call (the draw of the iteration in which
\* processInput set it is the last one); the loop test that finds it set
\* goes to the clean-up, and the clean-up deletes the vertex array and the
\* two buffers, destroys the window and terminates the library, each once,
\* and ends main().
C26_CloseFlagEndsLoop ==
  [][ /\ CloseFlag(glfw) =>
           /\ CloseFlag(glfw') \/ pc' = "exit"
           /\ pc \in {"swapPoll", "loopTest", "cleanup"}
           /\ ~\E i \in DOMAIN StepCalls : StepCalls[i][1] = "glDrawElements"
           /\ pc = "loopTest" => pc' = "cleanup"
      /\ pc' = "cleanup" => CloseFlag(glfw)
      /\ pc = "cleanup" =>
           /\ pc' = "exit" /\ loc'.exitCode = 0
           /\ Count("glDeleteVertexArrays", calls') = 1
           /\ Count("glDeleteBuffers", calls') = 2
           /\ Count("glfwDestroyWindow", calls') = 1
           /\ Count("glfwTerminate", calls') = 1
           /\ loc.VAO \notin DOMAIN gl'.vaos
           /\ {loc.VBO, loc.EBO} \cap DOMAIN gl'.buffers = {}
           /\ ~glfw'.initialized /\ glfw'.windows = EmptyFn
    ]_vars

C26_Witness ==
  /\ pc = "exit" /\ op.name = "main" /\ op.args[1] = "cleanup"
  /\ Count("glfwSetWindowShouldClose", calls) = 1
  /\ Count("glDrawElements", calls) = MaxFrames

\* the vertex array and the array buffer bound when call i of the log is
\* made: the argument of the last bind before it, 0 if there is none
LastBind(i, IsBind(_)) ==
  LET J == {j \in 1 .. i - 1 : IsBind(calls[j])} IN
  IF J = {} THEN 0
  ELSE LET j == CHOOSE x \in J : \A y \in J : y <= x IN calls[j][Len(calls[j])]
IsVertexArrayBind(entry) == entry[1] = "glBindVertexArray"
IsArrayBufferBind(entry) == entry[1] = "glBindBuffer" /\ entry[2] = "GL_ARRAY_BUFFER"

\* C30: every vertex-attribute configuration call (glVertexAttribPointer,
\* glEnableVertexAttribArray) is made while a non-zero vertex array is
\* bound and the vertex buffer is bound as the array buffer.
C30_AttributesConfiguredUnderBindings ==
  \A i \in DOMAIN calls :
    calls[i][1] \in {"glVertexAttribPointer", "glEnableVertexAttribArray"}
      => /\ LastBind(i, IsVertexArrayBind) # 0
         /\ LastBind(i, IsArrayBufferBind) # 0

(* ------------- claims about start-up (SpecStartup) ------------------- *)
\* Window objects in use, or a run of main()
InitStartup == InitWindow \/ InitMain
NextStartup == (pc = "lib" /\ NextWindow) \/ (pc # "lib" /\ NextMain)
SpecStartup == InitStartup /\ [][NextStartup]_vars

\* the calls that are not calls of OpenGL
PlatformCalls ==
  {"glfwInit", "glfwWindowHint", "glfwCreateWindow", "glfwTerminate",
   "glfwMakeContextCurrent", "gladLoadGLLoader",
   "glfwSetFramebufferSizeCallback", "glfwDestroyWindow",
   "glfwWindowShouldClose", "glfwSetWindowShouldClose", "glfwGetKey",
   "glfwSwapBuffers", "glfwPollEvents", "glfwGetTime",
   "stbi_load", "stbi_image_free", "stbi_set_flip_vertically_on_load"}
IsGLCall(entry) == entry[1] \notin PlatformCalls

\* the calls the step adds: Window operations start a fresh log, main()
\* appends to one log
Added == IF pc' = "lib" THEN calls' ELSE StepCalls

\* a step that calls OpenGL starts or ends with a current context whose
\* function table has loaded
GLCallsNeedLoadedContext ==
  (\E i \in DOMAIN Added : IsGLCall(Added[i]))
    => \/ glfw.loaded /\ glfw.context # 0
       \/ glfw'.loaded /\ glfw'.context # 0

WindowOrder ==
  <<"glfwInit", "glfwWindowHint", "glfwWindowHint", "glfwWindowHint",
    "glfwCreateWindow", "glfwMakeContextCurrent", "gladLoadGLLoader",
    "glViewport", "glfwSetFramebufferSizeCallback">>

MainOrder ==
  <<"glfwInit", "glfwWindowHint", "glfwWindowHint", "glfwWindowHint",
    "glfwCreateWindow", "glfwMakeContextCurrent",
    "glfwSetFramebufferSizeCallback", "gladLoadGLLoader">>

\* the step completes a Window construction, or the start-up of main()
WindowBuilt == op'.name = "Window" /\ thrown' = "none"
MainStarted == op'.name = "main" /\ op'.args[1] = "loadGL" /\ pc' # "exit"

\* C25 as stated: Window construction and the start-up of main() both make
\* the calls library init, three context hints, window creation,
\* make-context-current, GL function load, initial viewport, callback
\* registration, in that order, and no OpenGL call is made before the
\* context is current and the function table has loaded.
C25_StartupOrder ==
  [][ /\ WindowBuilt => CallNames(calls') = WindowOrder
      /\ MainStarted => CallNames(calls') = WindowOrder
      /\ GLCallsNeedLoadedContext ]_vars

\* C25 as amended: Window construction makes the calls in the stated
\* order; main() registers the resize callback before the GL function load
\* and sets no initial viewport; in both no OpenGL call is made before the
\* context is current and the function table has loaded.
C25_StartupOrderAmended ==
  [][ /\ WindowBuilt => CallNames(calls') = WindowOrder
      /\ MainStarted => CallNames(calls') = MainOrder
      /\ GLCallsNeedLoadedContext ]_vars

C25_Witness ==
  /\ op.name = "main" /\ op.args[1] = "loadGL" /\ pc \in {"shader", "parse"}
  /\ glfw.loaded /\ glfw.context = loc.window
  /\ glfw.windows[loc.window].resizeCallback
  /\ CallNames(calls) = MainOrder

\* C27: on every failure path of Window construction and of the start-up
\* of main() (library init, window creation or GL function loading fails),
\* once the exception has left the constructor or main() has returned, no
\* platform window exists and the windowing library is not initialised.
C27_FailurePathsReleaseEverything ==
  ((op.name = "Window" /\ thrown # "none")
    \/ (op.name = "main" /\ pc = "exit" /\ op.args[1] \in AcquisitionSteps))
    => (glfw.windows = EmptyFn /\ ~glfw.initialized)

(* ------------- claims about Shader lifetimes (SpecShaderLife) --------- *)

\* C20: no Shader operation (construction, initialize, the setters, the end
\* of the object's lifetime) releases a program handle or changes an ID: the
\* program of every Shader constructed stays allocated.
C20_ProgramNeverReleased ==
  [][ /\ \A i \in DOMAIN shaderObjs : shaderObjs'[i].ID = shaderObjs[i].ID
      /\ \A i \in DOMAIN shaderObjs' : shaderObjs'[i].ID \in DOMAIN gl'.programs
      /\ DOMAIN gl.programs \subseteq DOMAIN gl'.programs ]_vars

C20_Witness ==
  /\ op.name \in Setters
  /\ \E i \in DOMAIN shaderObjs :
       /\ ~shaderObjs[i].alive
       /\ shaderObjs[i].ID \in DOMAIN gl.programs
       /\ gl.current = shaderObjs[i].ID

(* -------------------------------- Mesh -------------------------------- *)
\* the constructor with the colour attribute starting one float early
Mesh_Mesh_ColorOffset(c, vertices, indices) ==
  LET c1 == glGenVertexArrays(c)
      VAO == c1.ret
      c2 == glGenBuffers(c1)
      VBO == c2.ret
      c3 == glGenBuffers(c2)
      EBO == c3.ret
      c4 == glBindVertexArray(c3, VAO)
      c5 == glBindBuffer(c4, "GL_ARRAY_BUFFER", VBO)
      c6 == glBufferData(c5, "GL_ARRAY_BUFFER", vertices, <<>>)
      c7 == glBindBuffer(c6, "GL_ELEMENT_ARRAY_BUFFER", EBO)
      c8 == glBufferData(c7, "GL_ELEMENT_ARRAY_BUFFER", Len(indices), indices)
      c9 == glEnableVertexAttribArray(glVertexAttribPointer(c8, 0, 3, 8, 0), 0)
      c10 == glEnableVertexAttribArray(glVertexAttribPointer(c9, 1, 3, 8, 2), 1)
      c11 == glEnableVertexAttribArray(glVertexAttribPointer(c10, 2, 2, 8, 6), 2)
      c12 == glBindBuffer(c11, "GL_ARRAY_BUFFER", 0)
      c13 == glBindVertexArray(c12, 0)
      c14 == glBindBuffer(c13, "GL_ELEMENT_ARRAY_BUFFER", 0)
  IN [c14 EXCEPT !.ret = [VAO |-> VAO, VBO |-> VBO, EBO |-> EBO,
                          indexcount |-> Len(indices), alive |-> TRUE]]

\* the constructor made to reject an index with no vertex record behind it
Mesh_Mesh_Validating(c, vertices, indices) ==
  LET c1 == glGenVertexArrays(c)
      c2 == glGenBuffers(c1)
      c3 == glGenBuffers(c2)
  IN IF \E k \in DOMAIN indices : 8 * indices[k] + 8 > vertices
       THEN Throw(c, "std::out_of_range: index")
       ELSE [c3 EXCEPT !.ret = [VAO |-> c1.ret, VBO |-> c2.ret, EBO |-> c3.ret,
                                indexcount |-> Len(indices), alive |-> TRUE]]

\* vertices: the number of floats in the vertex vector (their values play no
\* part); indices: the index list
\* the constructor clearing the element-buffer target while its vertex array
\* is still bound
Mesh_Mesh_ElementUnbindFirst(c, vertices, indices) ==
  LET c1 == glGenVertexArrays(c)
      VAO == c1.ret
      c2 == glGenBuffers(c1)
      VBO == c2.ret
      c3 == glGenBuffers(c2)
      EBO == c3.ret
      c4 == glBindVertexArray(c3, VAO)
      c5 == glBindBuffer(c4, "GL_ARRAY_BUFFER", VBO)
      c6 == glBufferData(c5, "GL_ARRAY_BUFFER", vertices, <<>>)
      c7 == glBindBuffer(c6, "GL_ELEMENT_ARRAY_BUFFER", EBO)
      c8 == glBufferData(c7, "GL_ELEMENT_ARRAY_BUFFER", Len(indices), indices)
      c9 == glEnableVertexAttribArray(glVertexAttribPointer(c8, 0, 3, 8, 0), 0)
      c10 == glEnableVertexAttribArray(glVertexAttribPointer(c9, 1, 3, 8, 3), 1)
      c11 == glEnableVertexAttribArray(glVertexAttribPointer(c10, 2, 2, 8, 6), 2)
      c12 == glBindBuffer(c11, "GL_ARRAY_BUFFER", 0)
      c13 == glBindBuffer(c12, "GL_ELEMENT_ARRAY_BUFFER", 0)
      c14 == glBindVertexArray(c13, 0)
  IN [c14 EXCEPT !.ret = [VAO |-> VAO, VBO |-> VBO, EBO |-> EBO,
                          indexcount |-> Len(indices), alive |-> TRUE]]

Mesh_Mesh(c, vertices, indices) ==
  LET c1 == glGenVertexArrays(c)
      VAO == c1.ret
      c2 == glGenBuffers(c1)
      VBO == c2.ret
      c3 == glGenBuffers(c2)
      EBO == c3.ret
      c4 == glBindVertexArray(c3, VAO)
      c5 == glBindBuffer(c4, "GL_ARRAY_BUFFER", VBO)
      c6 == glBufferData(c5, "GL_ARRAY_BUFFER", vertices, <<>>)
      c7 == glBindBuffer(c6, "GL_ELEMENT_ARRAY_BUFFER", EBO)
      c8 == glBufferData(c7, "GL_ELEMENT_ARRAY_BUFFER", Len(indices), indices)
      c9 == glEnableVertexAttribArray(glVertexAttribPointer(c8, 0, 3, 8, 0), 0)
      c10 == glEnableVertexAttribArray(glVertexAttribPointer(c9, 1, 3, 8, 3), 1)
      c11 == glEnableVertexAttribArray(glVertexAttribPointer(c10, 2, 2, 8, 6), 2)
      c12 == glBindBuffer(c11, "GL_ARRAY_BUFFER", 0)
      c13 == glBindVertexArray(c12, 0)
      c14 == glBindBuffer(c13, "GL_ELEMENT_ARRAY_BUFFER", 0)
  IN [c14 EXCEPT !.ret = [VAO |-> VAO, VBO |-> VBO, EBO |-> EBO,
                          indexcount |-> Len(indices), alive |-> TRUE]]

Mesh_bind_VAO(c, self) == glBindVertexArray(c, self.VAO)

Mesh_unbind_VAO(c, self) == glBindVertexArray(c, 0)

\* getIndexCount() counting one index too many
Mesh_getIndexCount_PlusOne(c, self) == [c EXCEPT !.ret = self.indexcount + 1]

Mesh_getIndexCount(c, self) == [c EXCEPT !.ret = self.indexcount]

\* the destructor leaving the index buffer behind
Mesh_dtor_KeepsEBO(c, self) ==
  glDeleteBuffers(glDeleteVertexArrays(c, self.VAO), self.VBO)

Mesh_dtor(c, self) ==
  glDeleteBuffers(glDeleteBuffers(glDeleteVertexArrays(c, self.VAO), self.VBO),
                  self.EBO)

(* ----------------------- Mesh objects in use -------------------------- *)
\* vertex vectors of whole 8-float records, and one that ends half way
\* through its last record
VertexLengths == {8 * n : n \in 0 .. MaxVertices} \cup {8 * MaxVertices - 4}
\* index lists, with values up to one past the last vertex
IndexLists == UNION {[1 .. n -> 0 .. MaxVertices] : n \in 0 .. MaxIndices}

\* given: the constructor's arguments, kept for the record
NewMesh ==
  /\ Len(meshObjs) < MaxMeshes
  /\ \E vertices \in VertexLengths, indices \in IndexLists :
       LET r == Mesh_Mesh(Ctx, vertices, indices) IN
       /\ Commit(r)
       /\ meshObjs' = IF r.exc = "none"
                        THEN Append(meshObjs,
                               [VAO |-> r.ret.VAO, VBO |-> r.ret.VBO,
                                EBO |-> r.ret.EBO, indexcount |-> r.ret.indexcount,
                                alive |-> r.ret.alive,
                                given |-> [vertices |-> vertices, indices |-> indices]])
                        ELSE meshObjs
       /\ op' = [name |-> "Mesh", obj |-> Len(meshObjs) + 1,
                 args |-> <<vertices, indices>>]
  /\ UNCHANGED <<shaderObjs, texObjs, winObjs, pc, loc>>

BindVAO ==
  /\ \E i \in DOMAIN meshObjs :
       /\ meshObjs[i].alive
       /\ Commit(Mesh_bind_VAO(Ctx, meshObjs[i]))
       /\ op' = [name |-> "bind_VAO", obj |-> i, args |-> <<>>]
  /\ UNCHANGED <<shaderObjs, texObjs, winObjs, meshObjs, pc, loc>>

UnbindVAO ==
  /\ \E i \in DOMAIN meshObjs :
       /\ meshObjs[i].alive
       /\ Commit(Mesh_unbind_VAO(Ctx, meshObjs[i]))
       /\ op' = [name |-> "unbind_VAO", obj |-> i, args |-> <<>>]
  /\ UNCHANGED <<shaderObjs, texObjs, winObjs, meshObjs, pc, loc>>

GetIndexCount ==
  /\ \E i \in DOMAIN meshObjs :
       /\ meshObjs[i].alive
       /\ LET r == Mesh_getIndexCount(Ctx, meshObjs[i]) IN
            /\ Commit(r)
            /\ op' = [name |-> "getIndexCount", obj |-> i, args |-> <<r.ret>>]
  /\ UNCHANGED <<shaderObjs, texObjs, winObjs, meshObjs, pc, loc>>

\* the draw of the render loop, made with a Mesh: bind, one indexed draw of
\* getIndexCount() indices, unbind
DrawMesh ==
  /\ \E i \in DOMAIN meshObjs, garbage \in 0 .. MaxVertices :
       /\ meshObjs[i].alive
       /\ LET c1 == Mesh_bind_VAO(Ctx, meshObjs[i])
              c2 == Mesh_getIndexCount(c1, meshObjs[i])
              c3 == glDrawElements(c2, c2.ret, garbage)
              c4 == Mesh_unbind_VAO(c3, meshObjs[i]) IN
            /\ Commit(c4)
            /\ op' = [name |-> "draw", obj |-> i, args |-> <<c2.ret>>]
  /\ UNCHANGED <<shaderObjs, texObjs, winObjs, meshObjs, pc, loc>>

DestroyMesh ==
  /\ \E i \in DOMAIN meshObjs :
       /\ meshObjs[i].alive
       /\ Commit(Mesh_dtor(Ctx, meshObjs[i]))
       /\ meshObjs' = [meshObjs EXCEPT ![i].alive = FALSE]
       /\ op' = [name |-> "~Mesh", obj |-> i, args |-> <<>>]
  /\ UNCHANGED <<shaderObjs, texObjs, winObjs, pc, loc>>

NextMesh ==
  NewMesh \/ BindVAO \/ UnbindVAO \/ GetIndexCount \/ DrawMesh \/ DestroyMesh

SpecMesh == InitLib /\ [][NextMesh]_vars

(* -------------------- claims about Mesh (SpecMesh) -------------------- *)
LastMesh == meshObjs[op.obj]
\* the number of whole vertex records a Mesh was given
Records(M) == M.given.vertices \div 8
InRange(M) ==
  /\ M.given.vertices = 8 * Records(M)
  /\ \A k \in DOMAIN M.given.indices : M.given.indices[k] < Records(M)

\* C15: Mesh construction succeeds for every vertex sequence and every
\* index list, lists with an index at or past the vertex count included,
\* and getIndexCount() returns the length of the index list, also after any
\* sequence of bind_VAO / unbind_VAO / getIndexCount calls.
C15_IndexCountIsListLength ==
  /\ op.name = "Mesh" => (thrown = "none" /\ op.obj \in DOMAIN meshObjs)
  /\ \A i \in DOMAIN meshObjs : meshObjs[i].indexcount = Len(meshObjs[i].given.indices)
  /\ op.name = "getIndexCount" => op.args[1] = Len(LastMesh.given.indices)

C15_Witness ==
  /\ op.name = "getIndexCount"
  /\ op.args[1] = MaxIndices
  /\ \E k \in DOMAIN LastMesh.given.indices :
       LastMesh.given.indices[k] >= Records(LastMesh)
  /\ gl.boundVAO = LastMesh.VAO

\* C16: for vertex data of N records of 8 floats and an index list with all
\* values in [0, N), a draw of getIndexCount() indices reads only uploaded
\* entries of the index buffer, and every attribute fetch (floats 8i+0..2,
\* 8i+3..5, 8i+6..7 for index i) lies inside the 8N uploaded floats.
C16_DrawStaysInsideBuffers ==
  (op.name = "draw" /\ InRange(LastMesh)) =>
    /\ gl.fetched.indices = 1 .. Len(LastMesh.given.indices)
    /\ gl.fetched.indices \subseteq 1 .. gl.buffers[LastMesh.EBO].length
    /\ gl.fetched.floats =
         {<<LastMesh.VBO, 8 * i + k>> :
            i \in Range(LastMesh.given.indices), k \in 0 .. 7}
    /\ \A f \in gl.fetched.floats :
         f[2] \in 0 .. gl.buffers[LastMesh.VBO].length - 1

C16_Witness ==
  /\ op.name = "draw" /\ InRange(LastMesh)
  /\ LastMesh.given.vertices = 8 * MaxVertices
  /\ <<LastMesh.VBO, 8 * MaxVertices - 1>> \in gl.fetched.floats
  /\ Cardinality(gl.fetched.indices) = MaxIndices

Span(a) == a.offset .. a.offset + a.size - 1

\* C18: the Mesh constructor enables exactly the attribute slots 0, 1 and 2,
\* with 3, 3 and 2 components, a stride of 8 floats and offsets of 0, 3 and
\* 6 floats: the three attributes are pairwise disjoint and together cover
\* exactly the 8 floats of a vertex record.
C18_AttributesTileTheRecord ==
  op.name = "Mesh" =>
    LET A == gl.vaos[LastMesh.VAO].attribs
        Attr(size, offset) == [enabled |-> TRUE, size |-> size, stride |-> 8,
                               offset |-> offset, buffer |-> LastMesh.VBO] IN
    /\ {s \in AttribSlots : A[s].enabled} = {0, 1, 2}
    /\ A[0] = Attr(3, 0) /\ A[1] = Attr(3, 3) /\ A[2] = Attr(2, 6)
    /\ \A s, t \in {0, 1, 2} : s # t => Span(A[s]) \cap Span(A[t]) = {}
    /\ UNION {Span(A[s]) : s \in {0, 1, 2}} = 0 .. 7

C18_Witness ==
  /\ op.name = "Mesh"
  /\ Len(meshObjs) = MaxMeshes
  /\ gl.vaos[LastMesh.VAO].attribs[2].enabled
  /\ ~gl.vaos[LastMesh.VAO].attribs[MaxAttrib].enabled
  /\ gl.vaos[LastMesh.VAO].attribs[1].buffer = LastMesh.VBO

\* C29: after Mesh construction no vertex array and no array buffer is
\* bound, and as long as the Mesh lives its vertex array records the mesh's
\* index buffer as element buffer and the three enabled attributes reading
\* the mesh's vertex buffer: a later bind_VAO() and indexed draw reads this
\* mesh's indices and this mesh's vertices.
C29_VertexArrayKeepsItsBuffers ==
  /\ op.name = "Mesh" => (gl.boundVAO = 0 /\ gl.arrayBuffer = 0)
  /\ \A i \in DOMAIN meshObjs :
       meshObjs[i].alive =>
         LET V == gl.vaos[meshObjs[i].VAO] IN
         /\ V.elementBuffer = meshObjs[i].EBO
         /\ gl.buffers[meshObjs[i].EBO].data = meshObjs[i].given.indices
         /\ \A s \in AttribSlots :
              V.attribs[s].enabled <=>
                (s \in {0, 1, 2} /\ V.attribs[s].buffer = meshObjs[i].VBO)
  /\ op.name = "draw" =>
       gl.fetched.floats =
         {<<LastMesh.VBO, 8 * LastMesh.given.indices[k] + j>> :
            k \in DOMAIN LastMesh.given.indices, j \in 0 .. 7}

C29_Witness ==
  /\ op.name = "draw" /\ op.obj = 1
  /\ Len(meshObjs) = MaxMeshes /\ meshObjs[MaxMeshes].alive
  /\ meshObjs[1].given.indices # meshObjs[MaxMeshes].given.indices
  /\ Len(meshObjs[1].given.indices) = MaxIndices
  /\ gl.fetched.floats # {}
  /\ gl.boundVAO = 0

(* ------------------- copies of wrapper objects ------------------------ *)
\* Texture declares a destructor and no copy operations, so the compiler
\* supplies the member-wise copy: Texture b = a; yields a second object with
\* the members of the first, and makes no call
CopyTexture ==
  /\ Len(texObjs) < MaxTextures
  /\ \E i \in DOMAIN texObjs :
       /\ texObjs[i].alive
       /\ Commit(Ctx)
       /\ texObjs' = Append(texObjs, texObjs[i])
       /\ op' = [name |-> "copy", obj |-> Len(texObjs) + 1, args |-> <<i>>]
  /\ UNCHANGED <<shaderObjs, winObjs, meshObjs, pc, loc>>

NextOwnership == NewTexture \/ CopyTexture \/ Bind \/ DestroyTexture

SpecOwnership == InitLib /\ [][NextOwnership]_vars

\* C19: no wrapper shares its resource: no two live wrapper objects hold the
\* same handle, and no live wrapper holds a handle that has been released
\* (which a later use or the wrapper's own destructor would then act on),
\* over any sequence of constructing, copying and destroying.
C19_NoSharedHandle ==
  /\ \A i, j \in DOMAIN texObjs :
       (i # j /\ texObjs[i].alive /\ texObjs[j].alive)
         => texObjs[i].ID # texObjs[j].ID
  /\ \A i \in DOMAIN texObjs :
       texObjs[i].alive => texObjs[i].ID \in DOMAIN gl.textures
====
